---- MODULE Spec2Model ----
(***************************************************************************)
(* FemtoRV32 "Quark", SystemC translation (femtorv32_quark.h/.cpp).        *)
(*                                                                         *)
(* The module has two SC_METHOD processes that communicate through plain   *)
(* member variables: clock_process (sensitive to every change of clk) and  *)
(* combinational_process (sensitive to clk, reset, mem_rdata, mem_rbusy,   *)
(* mem_wbusy).  One evaluation of a process is atomic.  The order in which *)
(* the simulator runs the two processes made runnable by the same clk      *)
(* event is implementation-defined; it is fixed per build (variable        *)
(* `order`).                                                               *)
(*                                                                         *)
(* A 32-bit sc_uint is a record [hi, lo] of two 16-bit halves, so that all *)
(* arithmetic is exact 32-bit arithmetic.                                  *)
(***************************************************************************)
EXTENDS Integers, Naturals, FiniteSets, Sequences, TLC

\* ------------------------------------------------------------------ words
Half == 2 ^ 16

Word(h, l) == [hi |-> h, lo |-> l]

Zero32 == Word(0, 0)

\* value of a word known to be below 2^31
ToNat(w) == w.hi * Half + w.lo

\* bits hi..lo of a natural number
Bits(n, hi, lo) == (n \div (2 ^ lo)) % (2 ^ (hi - lo + 1))

\* sc_uint<32>::range(hi, lo), result narrower than 31 bits
range(w, hi, lo) ==
    IF hi < 16 THEN Bits(w.lo, hi, lo)
    ELSE IF lo >= 16 THEN Bits(w.hi, hi - 16, lo - 16)
    ELSE Bits(w.lo, 15, lo) + (2 ^ (16 - lo)) * Bits(w.hi, hi - 16, 0)

\* sc_uint<32>::operator[]
bit(w, i) == range(w, i, i) = 1

B2N(b) == IF b THEN 1 ELSE 0

\* 32-bit wrapping addition with carry-in; carry-out in field c
AddC(a, b, cin) ==
    LET l == a.lo + b.lo + cin
        h == a.hi + b.hi + (l \div Half)
    IN  [hi |-> h % Half, lo |-> l % Half, c |-> h \div Half]

Add32(a, b) == LET s == AddC(a, b, 0) IN Word(s.hi, s.lo)

Not32(a) == Word(Half - 1 - a.hi, Half - 1 - a.lo)

AndT == [x \in 0..1, y \in 0..1 |-> x * y]
OrT  == [x \in 0..1, y \in 0..1 |-> IF x + y > 0 THEN 1 ELSE 0]
XorT == [x \in 0..1, y \in 0..1 |-> (x + y) % 2]

RECURSIVE Bitwise(_, _, _, _)
Bitwise(t, a, b, n) ==
    IF n = 0 THEN 0
    ELSE t[a % 2, b % 2] + 2 * Bitwise(t, a \div 2, b \div 2, n - 1)

Bitwise32(t, a, b) == Word(Bitwise(t, a.hi, b.hi, 16), Bitwise(t, a.lo, b.lo, 16))

And32(a, b) == Bitwise32(AndT, a, b)
Or32(a, b)  == Bitwise32(OrT, a, b)
Xor32(a, b) == Bitwise32(XorT, a, b)

\* the low n bits of a word (n <= 32), as a word
LowBits(w, n) ==
    IF n >= 32 THEN w
    ELSE IF n >= 16 THEN Word(w.hi % (2 ^ (n - 16)), w.lo)
    ELSE Word(0, w.lo % (2 ^ n))

\* aluReg << 1 on sc_uint<32>
Shl1(w) == Word((2 * w.hi + w.lo \div (2 ^ 15)) % Half, (2 * w.lo) % Half)

\* variant: the vacated bit is always 0
Shr1_Logical(s, w) == Word(w.hi \div 2, (w.hi % 2) * (2 ^ 15) + w.lo \div 2)

\* (sign_bit, aluReg.range(31, 1))
Shr1(s, w) == Word(B2N(s) * (2 ^ 15) + w.hi \div 2, (w.hi % 2) * (2 ^ 15) + w.lo \div 2)

\* ------------------------------------------------------- program constants
DEFAULT_RESET_ADDR == 0
DEFAULT_ADDR_WIDTH == 24

RESET_ADDR == Word(0, DEFAULT_RESET_ADDR)
ADDR_WIDTH == DEFAULT_ADDR_WIDTH

FETCH_INSTR     == 0
WAIT_INSTR      == 1
EXECUTE         == 2
WAIT_ALU_OR_MEM == 3

ALU_ADD_SUB == 0
ALU_SLL     == 1
ALU_SLT     == 2
ALU_SLTU    == 3
ALU_XOR     == 4
ALU_SRL_SRA == 5
ALU_OR      == 6
ALU_AND     == 7

BRANCH_BEQ  == 0
BRANCH_BNE  == 1
BRANCH_BLT  == 4
BRANCH_BGE  == 5
BRANCH_BLTU == 6
BRANCH_BGEU == 7

\* ------------------------------------------------------------- variables
VARIABLES
    \* input signals (sc_in)
    clk, reset, mem_rdata, mem_rbusy, mem_wbusy,
    \* output signals (sc_out)
    mem_addr, mem_wdata, mem_wmask, mem_rstrb,
    \* registers
    PC, state, cycles, registerFile, aluReg, aluShamt,
    \* the latched instruction and operands
    full_instr, rs1, rs2,
    isLoad, isALUimm, isStore, isALUreg, isSYSTEM,
    isJAL, isJALR, isLUI, isAUIPC, isBranch, isALU,
    \* members written by combinational_process and read by a later evaluation
    aluIn1, aluIn2, aluBusy, aluWr, funct3IsShift,
    writeBack, writeBackData, jumpToPCplusImm, needToWait,
    \* simulator: the processes runnable in the current delta, and the order
    \* in which this build runs two processes triggered by the same event
    pending, order,
    \* history: the branch taken by the latest clock_process evaluation, and
    \* the PC held when the FSM last entered EXECUTE (the instruction's address);
    \* <<PC, registerFile>> at the first completion of the same test built
    \* with the other process order (<<>> when no such build was run)
    lastClock, PC_at_fetch, firstRun,
    \* environment: clk events so far, and input changes since the last one
    edges, changes,
    \* the test bench's word memory (SimpleTestHarness::memory)
    memory

inputs  == <<clk, reset, mem_rdata, mem_rbusy, mem_wbusy>>
outputs == <<mem_addr, mem_wdata, mem_wmask, mem_rstrb>>
regs    == <<PC, state, cycles, registerFile, aluReg, aluShamt>>
classes == <<isLoad, isALUimm, isStore, isALUreg, isSYSTEM,
             isJAL, isJALR, isLUI, isAUIPC, isBranch, isALU>>
latched == <<full_instr, rs1, rs2, classes>>
comb    == <<aluIn1, aluIn2, aluBusy, aluWr, funct3IsShift,
             writeBack, writeBackData, jumpToPCplusImm, needToWait>>
hist    == <<lastClock, PC_at_fetch, firstRun>>
env     == <<edges, changes, memory>>
vars    == <<inputs, outputs, regs, latched, comb, pending, order, hist, env>>

\* ----------------------------------------------- decoded instruction fields
\* rdId, rs1Id, rs2Id, funct3 and instr are assigned together with full_instr
\* and from the same word, so they are functions of full_instr.
rdIdOf(I)   == range(I, 11, 7)
rs1IdOf(I)  == range(I, 19, 15)
rs2IdOf(I)  == range(I, 24, 20)
funct3Of(I) == range(I, 14, 12)

rdId   == rdIdOf(full_instr)
rs1Id  == rs1IdOf(full_instr)
rs2Id  == rs2IdOf(full_instr)
funct3 == funct3Of(full_instr)

\* instr = instruction.range(31, 2): instr[k] is bit k + 2 of the word
instrBit(I, k) == bit(I, k + 2)
instrRange(I, hi, lo) == range(I, hi + 2, lo + 2)

\* the class flags decode_instruction assigns for the word I
DecodeClasses(I) ==
    LET op == range(I, 6, 2)
        alui == (op = 4)
        alur == (op = 12)
    IN  [isLoad   |-> (op = 0),
         isALUimm |-> alui,
         isStore  |-> (op = 8),
         isALUreg |-> alur,
         isSYSTEM |-> (op = 28),
         isJAL    |-> bit(I, 3),
         isJALR   |-> (op = 25),
         isLUI    |-> (op = 13),
         isAUIPC  |-> (op = 5),
         isBranch |-> (op = 24),
         isALU    |-> (alui \/ alur)]

\* ------------------------------------------------------ compute_immediates
\* variant: every U-type word below 0x10000 gets Uimm = 0
UimmOf_ShortIsZero(I) ==
    LET opcode == range(I, 6, 0)
    IN  IF (opcode = 23 \/ opcode = 55) /\ I.hi = 0
        THEN Zero32
        ELSE Word(I.hi, (I.lo \div 4096) * 4096)

UimmOf(I) ==
    LET opcode == range(I, 6, 0)
    IN  IF (opcode = 23 \/ opcode = 55) /\ I.hi = 0
        THEN IF opcode = 23 THEN Zero32
             ELSE Word(0, ((I.lo \div 4096) % 16) * 4096)
        ELSE Word(I.hi, (I.lo \div 4096) * 4096)

\* variant: the 12-bit field is zero-extended
IimmOf_ZeroExtended(I) == Word(0, range(I, 31, 20))

IimmOf(I) ==
    IF bit(I, 31) THEN Word(Half - 1, 61440 + range(I, 31, 20))
    ELSE Word(0, range(I, 31, 20))

\* (sc_uint<21>(instr[29]), instr.range(28,23), instr.range(9,5))
SimmOf(I) ==
    Word(0, B2N(instrBit(I, 29)) * 2048 + instrRange(I, 28, 23) * 32
            + instrRange(I, 9, 5))

\* (sc_uint<20>(instr[29]), instr[5], instr.range(28,23), instr.range(9,6), 0)
BimmOf(I) ==
    Word(0, B2N(instrBit(I, 29)) * 4096 + B2N(instrBit(I, 5)) * 2048
            + instrRange(I, 28, 23) * 32 + instrRange(I, 9, 6) * 2)

\* (sc_uint<12>(instr[29]), instr.range(17,10), instr[18], instr.range(28,19), 0)
JimmOf(I) ==
    Word(B2N(instrBit(I, 29)) * 16 + instrRange(I, 17, 10) \div 16,
         (instrRange(I, 17, 10) % 16) * 4096 + B2N(instrBit(I, 18)) * 2048
            + instrRange(I, 28, 19) * 2)

\* ------------------------------------------------------------- compute_alu
\* aluMinus = {1, ~aluIn2} + {0, aluIn1} + 1 on 33 bits: the low word, and
\* bit 32 (1 plus the carry out of the low 32 bits, modulo 2)
aluMinusOf(in1, in2) ==
    LET s == AddC(Not32(in2), in1, 1)
    IN  [low |-> Word(s.hi, s.lo), b32 |-> (s.c = 0)]

\* variant: LT is the unsigned comparison
LTOf_Unsigned(in1, in2) == aluMinusOf(in1, in2).b32

LTOf(in1, in2) ==
    IF bit(in1, 31) # bit(in2, 31) THEN bit(in1, 31) ELSE aluMinusOf(in1, in2).b32

LTUOf(in1, in2) == aluMinusOf(in1, in2).b32

EQOf(in1, in2) == aluMinusOf(in1, in2).low = Zero32

\* variant: bit 30 alone selects the subtraction
aluOutOf_SubOnBit30(f3, I, in1, in2, reg) ==
    IF f3 = ALU_ADD_SUB
    THEN IF instrBit(I, 28)
         THEN aluMinusOf(in1, in2).low
         ELSE Add32(in1, in2)
    ELSE IF f3 = ALU_SLT  THEN Word(0, B2N(LTOf(in1, in2)))
    ELSE IF f3 = ALU_SLTU THEN Word(0, B2N(LTUOf(in1, in2)))
    ELSE IF f3 = ALU_XOR  THEN Xor32(in1, in2)
    ELSE IF f3 = ALU_OR   THEN Or32(in1, in2)
    ELSE IF f3 = ALU_AND  THEN And32(in1, in2)
    ELSE reg

aluOutOf(f3, I, in1, in2, reg) ==
    IF f3 = ALU_ADD_SUB
    THEN IF instrBit(I, 28) /\ instrBit(I, 3)
         THEN aluMinusOf(in1, in2).low
         ELSE Add32(in1, in2)
    ELSE IF f3 = ALU_SLT  THEN Word(0, B2N(LTOf(in1, in2)))
    ELSE IF f3 = ALU_SLTU THEN Word(0, B2N(LTUOf(in1, in2)))
    ELSE IF f3 = ALU_XOR  THEN Xor32(in1, in2)
    ELSE IF f3 = ALU_OR   THEN Or32(in1, in2)
    ELSE IF f3 = ALU_AND  THEN And32(in1, in2)
    ELSE reg

\* ------------------------------------------------ compute_branch_predicate
predicateOf(f3, in1, in2) ==
    \/ (f3 = BRANCH_BEQ  /\ EQOf(in1, in2))
    \/ (f3 = BRANCH_BNE  /\ ~EQOf(in1, in2))
    \/ (f3 = BRANCH_BLT  /\ LTOf(in1, in2))
    \/ (f3 = BRANCH_BGE  /\ ~LTOf(in1, in2))
    \/ (f3 = BRANCH_BLTU /\ LTUOf(in1, in2))
    \/ (f3 = BRANCH_BGEU /\ ~LTUOf(in1, in2))

\* --------------------------------------------------- compute_memory_access
mem_byteAccessOf(I)     == instrRange(I, 13, 12) = 0
mem_halfwordAccessOf(I) == instrRange(I, 13, 12) = 1

\* rs1.range(ADDR_WIDTH-1, 0) + imm.range(ADDR_WIDTH-1, 0), a 25-bit sum
loadstore_addrOf(r1, imm) ==
    LET s == ToNat(LowBits(r1, ADDR_WIDTH)) + ToNat(LowBits(imm, ADDR_WIDTH))
    IN  Word(s \div Half, s % Half)

LOAD_halfwordOf(la, W) == IF bit(la, 1) THEN W.hi ELSE W.lo

LOAD_byteOf(la, W) ==
    IF bit(la, 0) THEN LOAD_halfwordOf(la, W) \div 256
    ELSE LOAD_halfwordOf(la, W) % 256

LOAD_signOf(I, la, W) ==
    /\ ~instrBit(I, 12)
    /\ IF mem_byteAccessOf(I) THEN LOAD_byteOf(la, W) >= 128
       ELSE LOAD_halfwordOf(la, W) >= 32768

\* (sc_uint<24>(LOAD_sign), LOAD_byte) and (sc_uint<16>(LOAD_sign), LOAD_halfword)
LOAD_dataOf(I, la, W) ==
    IF mem_byteAccessOf(I)
    THEN Word(0, B2N(LOAD_signOf(I, la, W)) * 256 + LOAD_byteOf(la, W))
    ELSE IF mem_halfwordAccessOf(I)
    THEN Word(B2N(LOAD_signOf(I, la, W)), LOAD_halfwordOf(la, W))
    ELSE W

STORE_wmaskOf(I, la) ==
    IF mem_byteAccessOf(I)
    THEN IF bit(la, 1) THEN (IF bit(la, 0) THEN 8 ELSE 4)
         ELSE (IF bit(la, 0) THEN 2 ELSE 1)
    ELSE IF mem_halfwordAccessOf(I)
    THEN (IF bit(la, 1) THEN 12 ELSE 3)
    ELSE 15

\* --------------------------------------------------------------- update_pc
PCplus4Of(pc) == Add32(pc, Word(0, 4))

PCplusImmOf(pc, I, jal, auipc) ==
    IF jal THEN Add32(pc, LowBits(JimmOf(I), ADDR_WIDTH))
    ELSE IF auipc THEN Add32(pc, LowBits(UimmOf(I), ADDR_WIDTH))
    ELSE Add32(pc, LowBits(BimmOf(I), ADDR_WIDTH))

\* (aluPlus.range(ADDR_WIDTH-1, 1), sc_uint<1>(0))
\* variant: the target is truncated but bit 0 is kept
JALRTarget_KeepBit0(plus) == LowBits(plus, ADDR_WIDTH)

JALRTarget(plus) ==
    LET w == LowBits(plus, ADDR_WIDTH) IN Word(w.hi, w.lo - (w.lo % 2))

\* the PC after update_pc: written only while state == EXECUTE, with the
\* jumpToPCplusImm left by the previous evaluation
update_pc(st, pc, jalr, jump, plus, pcImm) ==
    IF st = EXECUTE
    THEN IF jalr THEN JALRTarget(plus)
         ELSE IF jump THEN pcImm
         ELSE PCplus4Of(pc)
    ELSE pc

\* ------------------------------------------------------------ update_state
\* variant: WAIT_INSTR does not test mem_rbusy
update_state_IgnoreRbusy(st, rbusy, wbusy, busy, wait) ==
    IF st = WAIT_INSTR THEN EXECUTE
    ELSE IF st = EXECUTE THEN (IF wait THEN WAIT_ALU_OR_MEM ELSE FETCH_INSTR)
    ELSE IF st = WAIT_ALU_OR_MEM
    THEN (IF ~busy /\ ~rbusy /\ ~wbusy THEN FETCH_INSTR ELSE WAIT_ALU_OR_MEM)
    ELSE WAIT_INSTR

\* variant: WAIT_ALU_OR_MEM leaves for WAIT_INSTR, skipping FETCH_INSTR
update_state_SkipFetch(st, rbusy, wbusy, busy, wait) ==
    IF st = WAIT_INSTR THEN (IF ~rbusy THEN EXECUTE ELSE WAIT_INSTR)
    ELSE IF st = EXECUTE THEN (IF wait THEN WAIT_ALU_OR_MEM ELSE FETCH_INSTR)
    ELSE IF st = WAIT_ALU_OR_MEM
    THEN (IF ~busy /\ ~rbusy /\ ~wbusy THEN WAIT_INSTR ELSE WAIT_ALU_OR_MEM)
    ELSE WAIT_INSTR

\* variant: WAIT_ALU_OR_MEM does not test mem_wbusy
update_state_IgnoreWbusy(st, rbusy, wbusy, busy, wait) ==
    IF st = WAIT_INSTR THEN (IF ~rbusy THEN EXECUTE ELSE WAIT_INSTR)
    ELSE IF st = EXECUTE THEN (IF wait THEN WAIT_ALU_OR_MEM ELSE FETCH_INSTR)
    ELSE IF st = WAIT_ALU_OR_MEM
    THEN (IF ~busy /\ ~rbusy THEN FETCH_INSTR ELSE WAIT_ALU_OR_MEM)
    ELSE WAIT_INSTR

\* variant: WAIT_ALU_OR_MEM does not test aluBusy
update_state_IgnoreAluBusy(st, rbusy, wbusy, busy, wait) ==
    IF st = WAIT_INSTR THEN (IF ~rbusy THEN EXECUTE ELSE WAIT_INSTR)
    ELSE IF st = EXECUTE THEN (IF wait THEN WAIT_ALU_OR_MEM ELSE FETCH_INSTR)
    ELSE IF st = WAIT_ALU_OR_MEM
    THEN (IF ~rbusy /\ ~wbusy THEN FETCH_INSTR ELSE WAIT_ALU_OR_MEM)
    ELSE WAIT_INSTR

update_state(st, rbusy, wbusy, busy, wait) ==
    IF st = WAIT_INSTR THEN (IF ~rbusy THEN EXECUTE ELSE WAIT_INSTR)
    ELSE IF st = EXECUTE THEN (IF wait THEN WAIT_ALU_OR_MEM ELSE FETCH_INSTR)
    ELSE IF st = WAIT_ALU_OR_MEM
    THEN (IF ~busy /\ ~rbusy /\ ~wbusy THEN FETCH_INSTR ELSE WAIT_ALU_OR_MEM)
    ELSE WAIT_INSTR

\* ----------------------------------------------------------- clock_process
\* variant: the reset branch is taken when reset is high
InReset_ActiveHigh(r) == r

\* the test `if (!reset.read())` that selects the reset branch
InReset(r) == ~r

\* variant: the write is not guarded by rdId != 0
RegisterWrite_NoX0Guard(wb, rd) == wb

\* `if (writeBack && rdId != 0)`
RegisterWrite(wb, rd) == wb /\ rd # 0

\* variant: a shift step does not count aluShamt down
Shifter_NoCountdown(wr, isShift, in1, in2, reg, shamt, f3, I) ==
    IF wr /\ isShift THEN <<in1, range(in2, 4, 0)>>
    ELSE IF shamt # 0
    THEN <<IF f3 = ALU_SLL THEN Shl1(reg)
           ELSE Shr1((f3 = ALU_SRL_SRA) /\ instrBit(I, 28) /\ bit(reg, 31), reg),
           shamt>>
    ELSE <<reg, shamt>>

\* variant: the shifter holds while the bus is busy
Shifter_BusGated(wr, isShift, in1, in2, reg, shamt, f3, I) ==
    IF wr /\ isShift THEN <<in1, range(in2, 4, 0)>>
    ELSE IF shamt # 0 /\ ~mem_rbusy /\ ~mem_wbusy
    THEN <<IF f3 = ALU_SLL THEN Shl1(reg)
           ELSE Shr1((f3 = ALU_SRL_SRA) /\ instrBit(I, 28) /\ bit(reg, 31), reg),
           shamt - 1>>
    ELSE <<reg, shamt>>

\* the next <<aluReg, aluShamt>> (1-bit shifter; NRV_TWOLEVEL_SHIFTER is not defined)
Shifter(wr, isShift, in1, in2, reg, shamt, f3, I) ==
    IF wr /\ isShift THEN <<in1, range(in2, 4, 0)>>
    ELSE IF shamt # 0
    THEN <<IF f3 = ALU_SLL THEN Shl1(reg)
           ELSE Shr1((f3 = ALU_SRL_SRA) /\ instrBit(I, 28) /\ bit(reg, 31), reg),
           shamt - 1>>
    ELSE <<reg, shamt>>

\* a process runs when it is runnable and the build's order lets it go first
MayRun(p) == p \in pending /\ (Cardinality(pending) = 1 \/ order = p)

clock_process ==
    /\ MayRun("clock")
    /\ pending' = pending \ {"clock"}
    /\ IF InReset(reset)
       THEN /\ state' = WAIT_ALU_OR_MEM
            /\ PC' = RESET_ADDR
            /\ cycles' = Zero32
            /\ aluShamt' = 0
            /\ registerFile' = [registerFile EXCEPT ![0] = Zero32]
            /\ aluReg' = aluReg
            /\ lastClock' = "reset"
            /\ PC_at_fetch' = PC_at_fetch
       ELSE LET sh == Shifter(aluWr, funct3IsShift, aluIn1, aluIn2,
                              aluReg, aluShamt, funct3, full_instr)
                next == update_state(state, mem_rbusy, mem_wbusy, aluBusy, needToWait)
            IN  /\ cycles' = Add32(cycles, Word(0, 1))
                /\ aluReg' = sh[1]
                /\ aluShamt' = sh[2]
                /\ registerFile' =
                       IF RegisterWrite(writeBack, rdId)
                       THEN [registerFile EXCEPT ![rdId] = writeBackData]
                       ELSE registerFile
                /\ state' = next
                /\ PC' = PC
                /\ lastClock' = "run"
                /\ PC_at_fetch' = IF next = EXECUTE /\ state # EXECUTE
                                  THEN PC ELSE PC_at_fetch
    /\ UNCHANGED <<inputs, outputs, latched, comb, order, firstRun, env>>

\* --------------------------------------------------- combinational_process
\* variant: a word is decoded in every state
Decodes_AnyState(st, rbusy) == ~rbusy

\* `if (state == WAIT_INSTR && !mem_rbusy.read())` of decode_instruction
Decodes(st, rbusy) == st = WAIT_INSTR /\ ~rbusy

\* variant: writeBack is not gated by the instruction class
writeBackOf_NoClassGate(st, branch, store) ==
    st = EXECUTE \/ st = WAIT_ALU_OR_MEM

writeBackOf(st, branch, store) ==
    ~(branch \/ store) /\ (st = EXECUTE \/ st = WAIT_ALU_OR_MEM)

mem_rstrbOf(st, load) == (st = FETCH_INSTR) \/ (st = EXECUTE /\ load)

mem_wmaskOf(st, store, mask) == IF st = EXECUTE /\ store THEN mask ELSE 0

\* variant: a shift does not make the FSM wait
needToWaitOf_NoShift(load, store, alu, isShift) == load \/ store

needToWaitOf(load, store, alu, isShift) == load \/ store \/ (alu /\ isShift)

mem_addrOf(st, load, store, pc, la) ==
    IF st = WAIT_INSTR \/ st = FETCH_INSTR \/ (st = EXECUTE /\ ~load /\ ~store)
    THEN pc ELSE la

Sel(c, w) == IF c THEN w ELSE Zero32

\* variant: a SYSTEM instruction selects nothing
writeBackDataOf_NoCycles(cl, cyc, uimm, out, pcImm, pc4, ld) ==
    Or32(Or32(Sel(cl.isLUI, uimm),
              Or32(Sel(cl.isALU, out), Sel(cl.isAUIPC, pcImm))),
         Or32(Sel(cl.isJALR \/ cl.isJAL, pc4), Sel(cl.isLoad, ld)))

writeBackDataOf(cl, cyc, uimm, out, pcImm, pc4, ld) ==
    Or32(Or32(Or32(Sel(cl.isSYSTEM, cyc), Sel(cl.isLUI, uimm)),
              Or32(Sel(cl.isALU, out), Sel(cl.isAUIPC, pcImm))),
         Or32(Sel(cl.isJALR \/ cl.isJAL, pc4), Sel(cl.isLoad, ld)))

combinational_process ==
    /\ MayRun("comb")
    /\ pending' = pending \ {"comb"}
    /\ LET dec == Decodes(state, mem_rbusy)
           I   == IF dec THEN mem_rdata ELSE full_instr
           cl  == IF dec THEN DecodeClasses(I)
                  ELSE [isLoad |-> isLoad, isALUimm |-> isALUimm, isStore |-> isStore,
                        isALUreg |-> isALUreg, isSYSTEM |-> isSYSTEM, isJAL |-> isJAL,
                        isJALR |-> isJALR, isLUI |-> isLUI, isAUIPC |-> isAUIPC,
                        isBranch |-> isBranch, isALU |-> isALU]
           r1  == IF dec THEN registerFile[rs1IdOf(I)] ELSE rs1
           r2  == IF dec THEN registerFile[rs2IdOf(I)] ELSE rs2
           f3  == funct3Of(I)
           in1 == r1
           in2 == IF cl.isALUreg \/ cl.isBranch THEN r2 ELSE IimmOf(I)
           plus  == Add32(in1, in2)
           out   == aluOutOf(f3, I, in1, in2, aluReg)
           shift == (f3 = ALU_SLL) \/ (f3 = ALU_SRL_SRA)
           pred  == predicateOf(f3, in1, in2)
           la    == loadstore_addrOf(r1, IF cl.isStore THEN SimmOf(I) ELSE IimmOf(I))
           pc4   == PCplus4Of(PC)
           pcImm == PCplusImmOf(PC, I, cl.isJAL, cl.isAUIPC)
           npc   == update_pc(state, PC, cl.isJALR, jumpToPCplusImm, plus, pcImm)
       IN  /\ full_instr' = I
           /\ rs1' = r1
           /\ rs2' = r2
           /\ isLoad' = cl.isLoad
           /\ isALUimm' = cl.isALUimm
           /\ isStore' = cl.isStore
           /\ isALUreg' = cl.isALUreg
           /\ isSYSTEM' = cl.isSYSTEM
           /\ isJAL' = cl.isJAL
           /\ isJALR' = cl.isJALR
           /\ isLUI' = cl.isLUI
           /\ isAUIPC' = cl.isAUIPC
           /\ isBranch' = cl.isBranch
           /\ isALU' = cl.isALU
           /\ aluIn1' = in1
           /\ aluIn2' = in2
           /\ funct3IsShift' = shift
           /\ aluBusy' = (aluShamt # 0)
           /\ PC' = npc
           /\ writeBack' = writeBackOf(state, cl.isBranch, cl.isStore)
           /\ mem_rstrb' = mem_rstrbOf(state, cl.isLoad)
           /\ mem_wmask' = mem_wmaskOf(state, cl.isStore, STORE_wmaskOf(I, la))
           /\ aluWr' = (state = EXECUTE /\ cl.isALU)
           /\ jumpToPCplusImm' = (cl.isJAL \/ (cl.isBranch /\ pred))
           /\ needToWait' = needToWaitOf(cl.isLoad, cl.isStore, cl.isALU, shift)
           /\ mem_addr' = mem_addrOf(state, cl.isLoad, cl.isStore, npc, la)
           /\ mem_wdata' = r2
           /\ writeBackData' = writeBackDataOf(cl, cycles, UimmOf(I), out, pcImm, pc4,
                                               LOAD_dataOf(I, la, mem_rdata))
    /\ UNCHANGED <<inputs, state, cycles, registerFile, aluReg, aluShamt, order, hist, env>>

\* ------------------------------------------------------------- environment
\* bounds on the run: the number of clk events, and the number of input
\* changes between two clk events
MaxEdges == 4
MaxChanges == 1
\* the number of words of the test bench's memory
MemSize == 4

\* the words the memory returns, as instructions and as load data
SRLI_x1_x1_1   == Word(16, 53395)     \* 0x0010D093  srli x1, x1, 1
LW_x2_0_x1     == Word(0, 41219)      \* 0x0000A103  lw   x2, 0(x1)
JALR_x0_3_x0   == Word(48, 103)       \* 0x00300067  jalr x0, 3(x0)
ILLEGAL_rd1    == Word(0, 143)        \* 0x0000008F  I[6:2] = 00011, rd = 1

Program == {SRLI_x1_x1_1, LW_x2_0_x1, JALR_x0_3_x0, ILLEGAL_rd1}

\* a clk event: both processes become runnable; other inputs committed in the
\* same update phase change with it
ClkEdge(W) ==
    /\ pending = {}
    /\ edges < MaxEdges
    /\ edges' = edges + 1
    /\ changes' = 0
    /\ clk' = ~clk
    /\ reset' \in BOOLEAN
    /\ mem_rdata' \in W
    /\ mem_rbusy' \in BOOLEAN
    /\ mem_wbusy' \in BOOLEAN
    /\ pending' = {"clock", "comb"}
    /\ UNCHANGED <<outputs, regs, latched, comb, order, hist, memory>>

\* reset, mem_rdata, mem_rbusy or mem_wbusy changes between clk events:
\* only combinational_process is sensitive to them
InputChange(W) ==
    /\ pending = {}
    /\ changes < MaxChanges
    /\ changes' = changes + 1
    /\ edges' = edges
    /\ clk' = clk
    /\ reset' \in BOOLEAN
    /\ mem_rdata' \in W
    /\ mem_rbusy' \in BOOLEAN
    /\ mem_wbusy' \in BOOLEAN
    /\ <<reset', mem_rdata', mem_rbusy', mem_wbusy'>>
           # <<reset, mem_rdata, mem_rbusy, mem_wbusy>>
    /\ pending' = {"comb"}
    /\ UNCHANGED <<outputs, regs, latched, comb, order, hist, memory>>

\* After construction: the constructor's initialisers, zero for every sc_uint
\* member, and an arbitrary common value u for the bool members it leaves
\* uninitialised.  Both processes run once at initialisation.
Init ==
    /\ clk = FALSE
    /\ reset \in BOOLEAN
    /\ mem_rdata = Zero32
    /\ mem_rbusy = FALSE
    /\ mem_wbusy = FALSE
    /\ mem_addr = Zero32
    /\ mem_wdata = Zero32
    /\ mem_wmask = 0
    /\ mem_rstrb = FALSE
    /\ PC = Zero32
    /\ state = WAIT_ALU_OR_MEM
    /\ cycles = Zero32
    /\ registerFile = [i \in 0..31 |-> Zero32]
    /\ aluReg = Zero32
    /\ aluShamt = 0
    /\ full_instr = Zero32
    /\ rs1 = Zero32
    /\ rs2 = Zero32
    /\ aluIn1 = Zero32
    /\ aluIn2 = Zero32
    /\ writeBackData = Zero32
    /\ \E u \in BOOLEAN :
          /\ isLoad = u /\ isALUimm = u /\ isStore = u /\ isALUreg = u
          /\ isSYSTEM = u /\ isJAL = u /\ isJALR = u /\ isLUI = u
          /\ isAUIPC = u /\ isBranch = u /\ isALU = u
          /\ aluBusy = u /\ aluWr = u /\ funct3IsShift = u
          /\ writeBack = u /\ jumpToPCplusImm = u /\ needToWait = u
    /\ pending = {"clock", "comb"}
    /\ order \in {"clock", "comb"}
    /\ lastClock = "none"
    /\ firstRun = <<>>
    /\ PC_at_fetch = Zero32
    /\ edges = 0
    /\ changes = 0
    /\ memory = [a \in 0..(MemSize - 1) |-> Zero32]

Next ==
    \/ clock_process
    \/ combinational_process
    \/ ClkEdge(Program)
    \/ InputChange(Program)

Spec == Init /\ [][Next]_vars

\* ---------------------------------------------------------- the test bench
\* SimpleTestHarness: the core wired to a word memory that answers in the
\* next delta cycle and is never busy, a free-running clock, reset held high.
\* bound on the run: the number of clk events
MaxTicks == 10

\* byte lane i (0..3) of a word
Lane(w, i) ==
    IF i = 0 THEN w.lo % 256 ELSE IF i = 1 THEN w.lo \div 256
    ELSE IF i = 2 THEN w.hi % 256 ELSE w.hi \div 256

FromLanes(b0, b1, b2, b3) == Word(b3 * 256 + b2, b1 * 256 + b0)

\* bit i of the 4-bit write mask
MaskBit(mask, i) == (mask \div (2 ^ i)) % 2 = 1

\* the word after a write of `data` under `mask`: enabled lanes take the
\* same lanes of data
MergeLanes(old, data, mask) ==
    FromLanes(IF MaskBit(mask, 0) THEN Lane(data, 0) ELSE Lane(old, 0),
              IF MaskBit(mask, 1) THEN Lane(data, 1) ELSE Lane(old, 1),
              IF MaskBit(mask, 2) THEN Lane(data, 2) ELSE Lane(old, 2),
              IF MaskBit(mask, 3) THEN Lane(data, 3) ELSE Lane(old, 3))

\* word_addr = addr >> 2, and the test word_addr < memory->size()
InMemory(addr) == addr.hi = 0 /\ addr.lo \div 4 < MemSize
word_addr(addr) == addr.lo \div 4

\* what memory_process writes to mem_rdata, and the memory it leaves
MemoryRead ==
    IF mem_rstrb
    THEN (IF InMemory(mem_addr) THEN memory[word_addr(mem_addr)] ELSE Zero32)
    ELSE mem_rdata

MemoryWrite ==
    IF mem_wmask # 0 /\ InMemory(mem_addr)
    THEN [memory EXCEPT ![word_addr(mem_addr)] =
              MergeLanes(memory[word_addr(mem_addr)], mem_wdata, mem_wmask)]
    ELSE memory

\* memory_process has something to do: an output it is sensitive to has
\* changed since it last ran
MemoryPending == MemoryRead # mem_rdata \/ MemoryWrite # memory

\* one evaluation of memory_process, in the delta after the core's outputs
\* changed; a change of mem_rdata makes combinational_process runnable
memory_process ==
    /\ pending = {}
    /\ MemoryPending
    /\ mem_rdata' = MemoryRead
    /\ memory' = MemoryWrite
    /\ mem_rbusy' = FALSE
    /\ mem_wbusy' = FALSE
    /\ pending' = IF MemoryRead # mem_rdata THEN {"comb"} ELSE {}
    /\ UNCHANGED <<clk, reset, outputs, regs, latched, comb, order, hist,
                   edges, changes>>

\* a clk event of the test bench's sc_clock, once the deltas have settled
Tick ==
    /\ pending = {}
    /\ ~MemoryPending
    /\ edges < MaxTicks
    /\ edges' = edges + 1
    /\ clk' = ~clk
    /\ pending' = {"clock", "comb"}
    /\ UNCHANGED <<reset, mem_rdata, mem_rbusy, mem_wbusy, outputs, regs,
                   latched, comb, order, hist, changes, memory>>

\* instruction words by format
EncI(imm, r1, f3, rd, op) ==
    Word(imm * 16 + r1 \div 2, (r1 % 2) * 32768 + f3 * 4096 + rd * 128 + op)

EncS(imm, r2, r1, f3) ==
    Word((imm \div 32) * 512 + r2 * 16 + r1 \div 2,
         (r1 % 2) * 32768 + f3 * 4096 + (imm % 32) * 128 + 35)

EncB(imm, r2, r1, f3) ==
    Word(((imm \div 4096) % 2) * 32768 + ((imm \div 32) % 64) * 512
            + r2 * 16 + r1 \div 2,
         (r1 % 2) * 32768 + f3 * 4096 + ((imm \div 2) % 16) * 256
            + ((imm \div 2048) % 2) * 128 + 99)

EncJ(imm, rd) ==
    Word(((imm \div 1048576) % 2) * 32768 + ((imm \div 2) % 1024) * 32
            + ((imm \div 2048) % 2) * 16 + ((imm \div 65536) % 16),
         ((imm \div 4096) % 16) * 4096 + rd * 128 + 111)

EncU(imm, rd, op) == Word(imm \div 16, (imm % 16) * 4096 + rd * 128 + op)

NOP == EncI(0, 0, 0, 0, 19)            \* 0x00000013  addi x0, x0, 0

\* register and memory contents the test programs start from
StoreValue == Word(65535, 64188)       \* 0xFFFFFABC
DataWord   == Word(32963, 65402)       \* 0x80C3FF7A

\* a test case: the words at addresses 0 and 4, and the base address held by
\* x1 and x2 (x3 holds StoreValue, the word at address 8 is DataWord)
Case(i0, i1, base) == [i0 |-> i0, i1 |-> i1, base |-> base]

\* one word of every I[6:2], all other fields zero
DecodeCases == {Case(Word(0, 4 * op + 3), NOP, 8) : op \in 0..31}

\* I-type words with small and large immediates: addi, slti, jalr and lw
\* with destination x4 and base x1
ImmCases ==
    {Case(EncI(imm, 1, ALU_ADD_SUB, 4, 19), NOP, 8) : imm \in {1, 2047, 2048, 4095}}
      \cup {Case(EncI(4095, 1, ALU_SLT, 4, 19), NOP, 8),      \* slti x4, x1, -1
            Case(EncI(4092, 1, 0, 4, 103), NOP, 8),            \* jalr x4, -4(x1)
            Case(EncI(4092, 1, 2, 4, 3), NOP, 8)}              \* lw   x4, -4(x1)

\* stores of x3 through an odd (x1) and an even (x2) base register: sb, sh
\* and sw at every byte lane, with offset 0 and with offset -4
StoreCases ==
    {Case(EncS(imm, 3, b, f3), NOP, base) :
        imm \in {0, 4092}, b \in {1, 2}, f3 \in 0..2, base \in 8..11}

\* a NOP at address 0 followed at address 4 by a backward jump of 4 bytes:
\* an always-taken and a never-taken branch, and jal
JumpCases ==
    {Case(NOP, EncB(8188, 0, 0, BRANCH_BEQ), 8),     \* beq x0, x0, -4
     Case(NOP, EncB(8188, 0, 0, BRANCH_BNE), 8),     \* bne x0, x0, -4
     Case(NOP, EncJ(2097148, 4), 8)}                 \* jal x4, -4

\* a NOP at address 0 followed at address 4 by auipc x2, imm
AuipcCases ==
    {Case(NOP, EncU(imm, 2, 23), 8) : imm \in {1, 2, 15, 16, 74565, 524288}}

\* loads into x4 through an odd (x1) and an even (x2) base register: lb, lh,
\* lw, lbu and lhu from every byte lane of the data word
LoadCases ==
    {Case(EncI(0, b, f3, 4, 3), NOP, base) :
        b \in {1, 2}, f3 \in {0, 1, 2, 4, 5}, base \in 8..11}

\* a store of x3 at address 0 followed at address 4 by a load into x4 from
\* the same address, through the same base register: sb then lbu or lb at
\* every byte lane, and sw then lw
RoundTripCases ==
    {Case(EncS(0, 3, b, 0), EncI(0, b, f3, 4, 3), base) :
        b \in {1, 2}, f3 \in {0, 4}, base \in 8..11}
      \cup {Case(EncS(0, 3, b, 2), EncI(0, b, 2, 4, 3), 8) : b \in {1, 2}}

\* a store, a taken and a not-taken branch whose I[11:7] field is 3, the
\* index of a register holding a non-zero value
GateCases ==
    {Case(EncS(3, 3, 1, 2), NOP, 8),                 \* sw  x3, 3(x1)
     Case(EncB(2050, 0, 0, BRANCH_BEQ), NOP, 8),     \* beq x0, x0, 2050
     Case(EncB(2050, 0, 0, BRANCH_BNE), NOP, 8)}     \* bne x0, x0, 2050

\* csrrs x10, csr, x0 for the CSR addresses cycle (0xC00), time (0xC01),
\* cycleh (0xC80) and mstatus (0x300), alone and twice in a row
SystemCases ==
    {Case(EncI(csr, 0, 2, 10, 115), NOP, 8) : csr \in {3072, 3073, 3200, 768}}
      \cup {Case(EncI(3072, 0, 2, 10, 115), EncI(3072, 0, 2, 11, 115), 8)}

\* instructions that write the register they read: a load through x1 into
\* x1, an addi and a shift of x1 into x1
LatchCases ==
    {Case(EncI(0, 1, 2, 1, 3), NOP, 8),                    \* lw   x1, 0(x1)
     Case(EncI(1, 1, ALU_ADD_SUB, 1, 19), NOP, 8),         \* addi x1, x1, 1
     Case(EncI(2, 1, ALU_SLL, 1, 19), NOP, 8)}             \* slli x1, x1, 2

HarnessCases ==
    DecodeCases \cup ImmCases \cup StoreCases \cup JumpCases \cup AuipcCases
      \cup LoadCases \cup RoundTripCases \cup GateCases \cup SystemCases
      \cup LatchCases

InitHarness ==
    /\ clk = FALSE
    /\ reset = TRUE
    /\ mem_rdata = Zero32
    /\ mem_rbusy = FALSE
    /\ mem_wbusy = FALSE
    /\ mem_addr = Zero32
    /\ mem_wdata = Zero32
    /\ mem_wmask = 0
    /\ mem_rstrb = FALSE
    /\ PC = Zero32
    /\ state = WAIT_ALU_OR_MEM
    /\ cycles = Zero32
    /\ aluReg = Zero32
    /\ aluShamt = 0
    /\ full_instr = Zero32
    /\ rs1 = Zero32
    /\ rs2 = Zero32
    /\ aluIn1 = Zero32
    /\ aluIn2 = Zero32
    /\ writeBackData = Zero32
    /\ \E u \in BOOLEAN :
          /\ isLoad = u /\ isALUimm = u /\ isStore = u /\ isALUreg = u
          /\ isSYSTEM = u /\ isJAL = u /\ isJALR = u /\ isLUI = u
          /\ isAUIPC = u /\ isBranch = u /\ isALU = u
          /\ aluBusy = u /\ aluWr = u /\ funct3IsShift = u
          /\ writeBack = u /\ jumpToPCplusImm = u /\ needToWait = u
    /\ pending = {"clock", "comb"}
    /\ order \in {"clock", "comb"}
    /\ lastClock = "none"
    /\ firstRun = <<>>
    /\ PC_at_fetch = Zero32
    /\ edges = 0
    /\ changes = 0
    /\ \E c \in HarnessCases :
          /\ registerFile = [i \in 0..31 |->
                                IF i \in {1, 2} THEN Word(0, c.base)
                                ELSE IF i = 3 THEN StoreValue ELSE Zero32]
          /\ memory = [a \in 0..(MemSize - 1) |->
                          IF a = 0 THEN c.i0 ELSE IF a = 1 THEN c.i1
                          ELSE IF a = 2 THEN DataWord ELSE Zero32]

NextHarness ==
    \/ clock_process
    \/ combinational_process
    \/ memory_process
    \/ Tick

SpecHarness == InitHarness /\ [][NextHarness]_vars

\* ------------------------------------------ comparisons on the test bench
\* The state after construction and load_program, reset released: registers
\* x1, x2, x3 preset, the program's two words at addresses 0 and 4, the data
\* word at address 8.
HarnessStart(x1, x2, x3, i0, i1) ==
    /\ clk = FALSE
    /\ reset = TRUE
    /\ mem_rdata = Zero32
    /\ mem_rbusy = FALSE
    /\ mem_wbusy = FALSE
    /\ mem_addr = Zero32
    /\ mem_wdata = Zero32
    /\ mem_wmask = 0
    /\ mem_rstrb = FALSE
    /\ PC = Zero32
    /\ state = WAIT_ALU_OR_MEM
    /\ cycles = Zero32
    /\ aluReg = Zero32
    /\ aluShamt = 0
    /\ full_instr = Zero32
    /\ rs1 = Zero32
    /\ rs2 = Zero32
    /\ aluIn1 = Zero32
    /\ aluIn2 = Zero32
    /\ writeBackData = Zero32
    /\ \E u \in BOOLEAN :
          /\ isLoad = u /\ isALUimm = u /\ isStore = u /\ isALUreg = u
          /\ isSYSTEM = u /\ isJAL = u /\ isJALR = u /\ isLUI = u
          /\ isAUIPC = u /\ isBranch = u /\ isALU = u
          /\ aluBusy = u /\ aluWr = u /\ funct3IsShift = u
          /\ writeBack = u /\ jumpToPCplusImm = u /\ needToWait = u
    /\ pending = {"clock", "comb"}
    /\ order \in {"clock", "comb"}
    /\ lastClock = "none"
    /\ firstRun = <<>>
    /\ PC_at_fetch = Zero32
    /\ edges = 0
    /\ changes = 0
    /\ registerFile = [i \in 0..31 |->
                          IF i = 1 THEN x1 ELSE IF i = 2 THEN x2
                          ELSE IF i = 3 THEN x3 ELSE Zero32]
    /\ memory = [a \in 0..(MemSize - 1) |->
                    IF a = 0 THEN i0 ELSE IF a = 1 THEN i1
                    ELSE IF a = 2 THEN DataWord ELSE Zero32]

\* R-type words
EncR(f7, r2, r1, f3, rd) == EncI(f7 * 32 + r2, r1, f3, rd, 51)

\* operand values around the sign boundary and the 16-bit carry boundary
Operands ==
    {Zero32, Word(0, 1), Word(0, 65535), Word(1, 0),
     Word(32767, 65535), Word(32768, 0), Word(65535, 65535)}

\* slt/sltu x4, x1, x2; slti/sltiu x4, x1, imm; every funct3 of a branch on
\* x1, x2 with offset 8
CompareProgram ==
    {EncR(0, 2, 1, f3, 4) : f3 \in {ALU_SLT, ALU_SLTU}}
      \cup {EncI(imm, 1, f3, 4, 19) :
               imm \in {0, 1, 2048, 4095}, f3 \in {ALU_SLT, ALU_SLTU}}
      \cup {EncB(8, 2, 1, f3) : f3 \in 0..7}

InitCompare ==
    \E a \in Operands, b \in Operands, i \in CompareProgram :
        HarnessStart(a, b, Zero32, i, NOP)

SpecCompare == InitCompare /\ [][NextHarness]_vars

\* ----------------------------------------------- shifts on the test bench
\* the number of clk events of a shift run: a shift by 31 leaves
\* WAIT_ALU_OR_MEM some 35 events after the start
MaxShiftTicks == 40

\* a clk event of the test bench's sc_clock in a shift run
ShiftTick ==
    /\ pending = {}
    /\ ~MemoryPending
    /\ edges < MaxShiftTicks
    /\ edges' = edges + 1
    /\ clk' = ~clk
    /\ pending' = {"clock", "comb"}
    /\ UNCHANGED <<reset, mem_rdata, mem_rbusy, mem_wbusy, outputs, regs,
                   latched, comb, order, hist, changes, memory>>

\* the values shifted, and the values of rs2 that give the shift amount of
\* the register forms (only rs2[4:0] counts)
ShiftValues == {Word(32768, 0), Word(32767, 65535), Word(1, 32769)}
ShiftRs2    == {Zero32, Word(0, 33), Word(0, 16), Word(65535, 65535)}

\* slli/srli/srai x4, x1, n for every n, and sll/srl/sra x4, x1, x2
ShiftImmProgram ==
    {EncI(n, 1, ALU_SLL, 4, 19) : n \in 0..31}
      \cup {EncI(n, 1, ALU_SRL_SRA, 4, 19) : n \in 0..31}
      \cup {EncI(1024 + n, 1, ALU_SRL_SRA, 4, 19) : n \in 0..31}

ShiftRegProgram ==
    {EncR(0, 2, 1, ALU_SLL, 4), EncR(0, 2, 1, ALU_SRL_SRA, 4),
     EncR(32, 2, 1, ALU_SRL_SRA, 4)}

\* the shift amounts of the round trip slli x4, x1, n; srli x4, x4, n
RoundTripShamt == {0, 1, 8, 15}

\* the non-shift ALU instructions a shift is timed against
AddProgram ==
    {EncR(0, 2, 1, ALU_ADD_SUB, 4),           \* add  x4, x1, x2
     EncI(0, 1, ALU_ADD_SUB, 4, 19)}          \* addi x4, x1, 0

InitShift ==
    \/ \E v \in ShiftValues, i \in AddProgram :
          HarnessStart(v, Zero32, Zero32, i, NOP)
    \/ \E v \in ShiftValues, i \in ShiftImmProgram :
          HarnessStart(v, Zero32, Zero32, i, NOP)
    \/ \E v \in ShiftValues, b \in ShiftRs2, i \in ShiftRegProgram :
          HarnessStart(v, b, Zero32, i, NOP)
    \/ \E v \in ShiftValues, n \in RoundTripShamt :
          HarnessStart(v, Zero32, Zero32, EncI(n, 1, ALU_SLL, 4, 19),
                       EncI(n, 4, ALU_SRL_SRA, 4, 19))

NextShift ==
    \/ clock_process
    \/ combinational_process
    \/ memory_process
    \/ ShiftTick

SpecShift == InitShift /\ [][NextShift]_vars

\* ------------------------------------------------ shifts on an arbitrary bus
\* The core with x1 preset and reset held released, on a bus that returns
\* shifts by 2 and whose read data and busy flags change at any time.
BusShiftProgram ==
    {EncI(2, 1, ALU_SLL, 4, 19),              \* slli x4, x1, 2
     EncI(1026, 1, ALU_SRL_SRA, 4, 19)}       \* srai x4, x1, 2

BusShiftClkEdge == ClkEdge(BusShiftProgram) /\ reset'

BusShiftInputChange == InputChange(BusShiftProgram) /\ reset'

InitBusShift ==
    \E v \in {Word(32768, 0), Word(1, 32769)} :
        HarnessStart(v, Zero32, Zero32, NOP, NOP)

NextBusShift ==
    \/ clock_process
    \/ combinational_process
    \/ BusShiftClkEdge
    \/ BusShiftInputChange

SpecBusShift == InitBusShift /\ [][NextBusShift]_vars

\* ------------------------------- single instructions on the test bench
\* add/sub x4, x1, x2 and addi x4, x1, imm with I[31:30] = 00, 01, 10, 11
AddSubProgram ==
    {EncR(0, 2, 1, ALU_ADD_SUB, 4), EncR(32, 2, 1, ALU_ADD_SUB, 4)}
      \cup {EncI(imm, 1, ALU_ADD_SUB, 4, 19) : imm \in {1, 1024, 3071, 4095}}

\* jalr x4, imm(x1)
JalrProgram == {EncI(imm, 1, 0, 4, 103) : imm \in {0, 3, 4095}}

\* lui x4, imm: words below and above 0x10000
LuiProgram ==
    {EncU(imm, 4, 55) : imm \in {0, 1, 15, 16, 74565, 524288, 1048575}}

InitOperate ==
    \E a \in Operands, b \in Operands,
       i \in AddSubProgram \cup JalrProgram \cup LuiProgram :
        HarnessStart(a, b, Zero32, i, NOP)

SpecOperate == InitOperate /\ [][NextHarness]_vars

\* ------------------------------------------- programs on the test bench
\* The core after construction, before the test bench has loaded anything:
\* the constructor's initialisers, reset released, both processes runnable.
ConstructedCore ==
    /\ clk = FALSE
    /\ reset = TRUE
    /\ mem_rdata = Zero32
    /\ mem_rbusy = FALSE
    /\ mem_wbusy = FALSE
    /\ mem_addr = Zero32
    /\ mem_wdata = Zero32
    /\ mem_wmask = 0
    /\ mem_rstrb = FALSE
    /\ PC = Zero32
    /\ state = WAIT_ALU_OR_MEM
    /\ cycles = Zero32
    /\ registerFile = [i \in 0..31 |-> Zero32]
    /\ aluReg = Zero32
    /\ aluShamt = 0
    /\ full_instr = Zero32
    /\ rs1 = Zero32
    /\ rs2 = Zero32
    /\ aluIn1 = Zero32
    /\ aluIn2 = Zero32
    /\ writeBackData = Zero32
    /\ \E u \in BOOLEAN :
          /\ isLoad = u /\ isALUimm = u /\ isStore = u /\ isALUreg = u
          /\ isSYSTEM = u /\ isJAL = u /\ isJALR = u /\ isLUI = u
          /\ isAUIPC = u /\ isBranch = u /\ isALU = u
          /\ aluBusy = u /\ aluWr = u /\ funct3IsShift = u
          /\ writeBack = u /\ jumpToPCplusImm = u /\ needToWait = u
    /\ pending = {"clock", "comb"}
    /\ order \in {"clock", "comb"}
    /\ lastClock = "none"
    /\ firstRun = <<>>
    /\ PC_at_fetch = Zero32
    /\ edges = 0
    /\ changes = 0

\* load_program: the words of p from address 0 on, in a memory of zeros
LoadProgram(p) ==
    memory = [a \in 0..(MemSize - 1) |-> IF a < Len(p) THEN p[a + 1] ELSE Zero32]

\* straight-line programs of three ALU and LUI instructions: the operands
\* 5 and 3 followed by every register operation and by immediate and shift
\* operations; 0x7FFFFFFF built by lui and addi -1, then used and overwritten
ThirdOfSmall ==
    {EncR(0, 2, 1, f3, 3) : f3 \in 0..7}
      \cup {EncR(32, 2, 1, ALU_ADD_SUB, 3), EncR(32, 2, 1, ALU_SRL_SRA, 3)}
      \cup {EncI(imm, 1, f3, 3, 19) :
               imm \in {10, 4095}, f3 \in {ALU_ADD_SUB, ALU_SLT, ALU_SLTU,
                                           ALU_XOR, ALU_OR, ALU_AND}}
      \cup {EncI(1, 1, ALU_SLL, 3, 19), EncI(1, 1, ALU_SRL_SRA, 3, 19),
            EncI(1025, 1, ALU_SRL_SRA, 3, 19)}

ThirdOfLarge ==
    {EncI(1028, 1, ALU_SRL_SRA, 1, 19),       \* srai x1, x1, 4
     EncR(32, 1, 1, ALU_SRL_SRA, 3),          \* sra  x3, x1, x1
     EncR(0, 0, 1, ALU_SLT, 3),               \* slt  x3, x1, x0
     EncR(32, 1, 0, ALU_ADD_SUB, 1),          \* sub  x1, x0, x1
     EncR(0, 1, 1, ALU_ADD_SUB, 1),           \* add  x1, x1, x1
     EncI(1, 1, ALU_ADD_SUB, 0, 19),          \* addi x0, x1, 1
     EncU(5, 1, 55),                          \* lui  x1, 5
     EncU(74565, 5, 55)}                      \* lui  x5, 0x12345

Programs ==
    {<<EncI(5, 0, ALU_ADD_SUB, 1, 19), EncI(3, 0, ALU_ADD_SUB, 2, 19), w>> :
        w \in ThirdOfSmall}
      \cup {<<EncU(524288, 1, 55), EncI(4095, 1, ALU_ADD_SUB, 1, 19), w>> :
               w \in ThirdOfLarge}

InitProgram == ConstructedCore /\ \E p \in Programs : LoadProgram(p)

SpecProgram == InitProgram /\ [][NextShift]_vars

\* ------------------------------------------ the two orders of evaluation
\* One test, built twice: a simulator that runs clock_process first when a
\* clk event triggers both processes, then one that runs
\* combinational_process first.  x1 = x2 = 8, x3 = StoreValue, one
\* instruction with destination x4 at address 0, NOPs behind it.
OrderProgram ==
    {EncI(5, 1, ALU_ADD_SUB, 4, 19),          \* addi  x4, x1, 5
     EncR(32, 3, 1, ALU_ADD_SUB, 4),          \* sub   x4, x1, x3
     EncI(3, 1, ALU_SLL, 4, 19),              \* slli  x4, x1, 3
     EncU(74565, 4, 55),                      \* lui   x4, 0x12345
     EncU(16, 4, 23),                         \* auipc x4, 16
     EncJ(8, 4),                              \* jal   x4, 8
     EncI(4, 1, 0, 4, 103),                   \* jalr  x4, 4(x1)
     EncB(8, 2, 1, BRANCH_BEQ),               \* beq   x1, x2, 8
     EncB(8, 2, 1, BRANCH_BNE),               \* bne   x1, x2, 8
     EncI(0, 1, 2, 4, 3),                     \* lw    x4, 0(x1)
     EncI(1, 1, 0, 4, 3),                     \* lb    x4, 1(x1)
     EncI(2, 1, 5, 4, 3),                     \* lhu   x4, 2(x1)
     EncS(0, 3, 1, 2),                        \* sw    x3, 0(x1)
     EncS(1, 3, 1, 0),                        \* sb    x3, 1(x1)
     EncI(3072, 0, 2, 4, 115)}                \* csrrs x4, cycle, x0

\* the first instruction has completed and the deltas have settled: the FSM
\* is back in FETCH_INSTR, the word fetched at address 0 still latched
Completed ==
    /\ state = FETCH_INSTR /\ lastClock = "run"
    /\ PC_at_fetch = Zero32 /\ full_instr # Zero32
    /\ pending = {} /\ ~MemoryPending

\* the same test in the build of the other order: the result of the first
\* build is kept, the core is constructed and the program loaded again
RunOtherOrder ==
    /\ order = "clock" /\ firstRun = <<>> /\ Completed
    /\ firstRun' = <<PC, registerFile>>
    /\ order' = "comb"
    /\ clk' = FALSE
    /\ reset' = TRUE
    /\ mem_rdata' = Zero32
    /\ mem_rbusy' = FALSE
    /\ mem_wbusy' = FALSE
    /\ mem_addr' = Zero32
    /\ mem_wdata' = Zero32
    /\ mem_wmask' = 0
    /\ mem_rstrb' = FALSE
    /\ PC' = Zero32
    /\ state' = WAIT_ALU_OR_MEM
    /\ cycles' = Zero32
    /\ aluReg' = Zero32
    /\ aluShamt' = 0
    /\ full_instr' = Zero32
    /\ rs1' = Zero32
    /\ rs2' = Zero32
    /\ aluIn1' = Zero32
    /\ aluIn2' = Zero32
    /\ writeBackData' = Zero32
    /\ \E u \in BOOLEAN :
          /\ isLoad' = u /\ isALUimm' = u /\ isStore' = u /\ isALUreg' = u
          /\ isSYSTEM' = u /\ isJAL' = u /\ isJALR' = u /\ isLUI' = u
          /\ isAUIPC' = u /\ isBranch' = u /\ isALU' = u
          /\ aluBusy' = u /\ aluWr' = u /\ funct3IsShift' = u
          /\ writeBack' = u /\ jumpToPCplusImm' = u /\ needToWait' = u
    /\ pending' = {"clock", "comb"}
    /\ lastClock' = "none"
    /\ PC_at_fetch' = Zero32
    /\ edges' = 0
    /\ changes' = 0
    /\ registerFile' = [i \in 0..31 |->
                           IF i \in {1, 2} THEN Word(0, 8)
                           ELSE IF i = 3 THEN StoreValue ELSE Zero32]
    /\ memory' = [a \in 0..(MemSize - 1) |->
                     IF a = 0 THEN full_instr ELSE IF a = 1 THEN NOP
                     ELSE IF a = 2 THEN DataWord ELSE Zero32]

InitOrders ==
    /\ \E i \in OrderProgram :
          HarnessStart(Word(0, 8), Word(0, 8), StoreValue, i, NOP)
    /\ order = "clock"

NextOrders ==
    \/ clock_process
    \/ combinational_process
    \/ memory_process
    \/ Tick
    \/ RunOtherOrder

SpecOrders == InitOrders /\ [][NextOrders]_vars

\* ------------------------------------------------ progress on a busy bus
\* The core with reset released in front of a read-only program memory that
\* answers a read strobe at the next clk event, on a bus that raises
\* mem_rbusy and mem_wbusy at will at MaxBusy clk events of the run at most;
\* the clock runs for MaxLiveEdges events.
MaxLiveEdges == 48
MaxBusy == 2

\* a shift by 31, an unaligned word load, a halfword store at an odd
\* address, and a word of no class
LiveProgram ==
    {EncI(1055, 0, ALU_SRL_SRA, 4, 19),       \* srai x4, x0, 31
     EncI(1, 0, 2, 4, 3),                     \* lw   x4, 1(x0)
     EncS(3, 3, 0, 1),                        \* sh   x3, 3(x0)
     ILLEGAL_rd1}

\* a clk event; `changes` counts the clk events at which the bus was busy
LiveClkEdge ==
    /\ pending = {}
    /\ edges < MaxLiveEdges
    /\ edges' = edges + 1
    /\ clk' = ~clk
    /\ reset' = reset
    /\ mem_rdata' = MemoryRead
    /\ mem_rbusy' \in BOOLEAN
    /\ mem_wbusy' \in BOOLEAN
    /\ changes' = IF mem_rbusy' \/ mem_wbusy' THEN changes + 1 ELSE changes
    /\ changes' <= MaxBusy
    /\ pending' = {"clock", "comb"}
    /\ UNCHANGED <<outputs, regs, latched, comb, order, hist, memory>>

\* every pair of the words above at addresses 0 and 4
InitLive ==
    ConstructedCore /\ \E a \in LiveProgram, b \in LiveProgram : LoadProgram(<<a, b>>)

NextLive ==
    \/ clock_process
    \/ combinational_process
    \/ LiveClkEdge

\* the simulator evaluates a runnable process: the step of clock_process or
\* combinational_process, seen on `pending` alone
ProcessRuns == \E p \in pending : MayRun(p) /\ pending' = pending \ {p}

\* the simulator runs every runnable process, and the clock keeps running
SpecLive ==
    /\ InitLive /\ [][NextLive]_vars
    /\ WF_pending(ProcessRuns)
    /\ WF_vars(LiveClkEdge)

\* ------------------------------------------------- jumps on an arbitrary bus
\* The core with reset released at the first clk event, on a bus that returns
\* linking jumps and whose read data and busy flags change at any time.
JAL_x1_8     == EncJ(8, 1)                  \* 0x008000EF  jal  x1, 8
JALR_x1_0_x1 == EncI(0, 1, 0, 1, 103)       \* 0x000080E7  jalr x1, 0(x1)

LinkProgram == {JAL_x1_8, JALR_x1_0_x1}

LinkClkEdge == ClkEdge(LinkProgram) /\ reset'

LinkInputChange == InputChange(LinkProgram) /\ reset'

NextLink ==
    \/ clock_process
    \/ combinational_process
    \/ LinkClkEdge
    \/ LinkInputChange

SpecLink == Init /\ [][NextLink]_vars

\* ------------------------------------------------------------------ claims
\* a step that is one evaluation of clock_process / combinational_process
ClockStep == "clock" \in pending /\ "clock" \notin pending'
CombStep  == "comb" \in pending /\ "comb" \notin pending'

One32 == Word(0, 1)

\* the FSM table of the specification, read on the latched instruction
FsmTable ==
    CASE state = FETCH_INSTR -> WAIT_INSTR
      [] state = WAIT_INSTR -> IF mem_rbusy THEN WAIT_INSTR ELSE EXECUTE
      [] state = EXECUTE ->
            IF isLoad \/ isStore \/ (isALU /\ funct3 \in {ALU_SLL, ALU_SRL_SRA})
            THEN WAIT_ALU_OR_MEM ELSE FETCH_INSTR
      [] state = WAIT_ALU_OR_MEM ->
            IF ~aluBusy /\ ~mem_rbusy /\ ~mem_wbusy
            THEN FETCH_INSTR ELSE WAIT_ALU_OR_MEM

\* the values a clocked update in reset leaves
ResetValues ==
    /\ state' = WAIT_ALU_OR_MEM
    /\ PC' = RESET_ADDR
    /\ cycles' = Zero32
    /\ aluShamt' = 0

\* C1: every clocked update outside reset moves state as the FSM table says:
\* FETCH_INSTR -> WAIT_INSTR; WAIT_INSTR -> EXECUTE exactly when mem_rbusy is
\* low; EXECUTE -> WAIT_ALU_OR_MEM exactly when the latched instruction is a
\* load, a store or an ALU shift, else FETCH_INSTR; WAIT_ALU_OR_MEM ->
\* FETCH_INSTR exactly when aluBusy, mem_rbusy and mem_wbusy are low.
C1_FsmTransitions == [][(ClockStep /\ reset) => state' = FsmTable]_vars

\* C1 witness: a shift has left EXECUTE for WAIT_ALU_OR_MEM
C1_Witness ==
    /\ state = WAIT_ALU_OR_MEM /\ lastClock = "run"
    /\ full_instr = SRLI_x1_x1_1 /\ aluShamt = 1

C3_ResetAnywhere ==
    [][ClockStep =>
          /\ ~reset => ResetValues
          /\ (reset /\ lastClock = "reset" /\ ~mem_rbusy /\ ~mem_wbusy)
                => (state' = FETCH_INSTR /\ PC' = RESET_ADDR)]_vars

\* C3 witness: reset was applied while the shifter was busy (aluBusy is still
\* the value computed in the middle of the shift), and left the reset values
C3_Witness ==
    /\ lastClock = "reset" /\ full_instr = SRLI_x1_x1_1 /\ aluBusy
    /\ state = WAIT_ALU_OR_MEM /\ aluShamt = 0 /\ PC = RESET_ADDR

\* C4: x0 is zero in every reachable state, and an operand read through
\* register index 0 is latched as zero.
C4_X0Zero ==
    /\ registerFile[0] = Zero32
    /\ (rs1Id = 0 => rs1 = Zero32)
    /\ (rs2Id = 0 => rs2 = Zero32)

\* C4 witness: an instruction with rd = 0 and a nonzero result has completed
C4_Witness ==
    /\ full_instr = JALR_x0_3_x0 /\ state = FETCH_INSTR /\ lastClock = "run"
    /\ writeBackData # Zero32 /\ PC = Word(0, 2)

\* C5 as stated: the two low bits of PC are zero in every reachable state.
C5_WordAligned == PC.lo % 4 = 0

\* the second ALU operand of the latched instruction, and its JALR target
LatchedIn2 == IF isALUreg \/ isBranch THEN rs2 ELSE IimmOf(full_instr)
LatchedPlus == Add32(rs1, LatchedIn2)

\* C5 amended: bit 0 of PC is zero in every reachable state; bit 1 becomes
\* set only by an evaluation in EXECUTE of a JALR whose target has bit 1 set
\* or of a taken branch or JAL whose offset is not a multiple of 4.
C5_HalfwordAligned ==
    /\ [](PC.lo % 2 = 0)
    /\ [][(PC.lo % 4 = 0 /\ PC'.lo % 4 # 0) =>
            /\ CombStep /\ state = EXECUTE
            /\ \/ isJALR /\ bit(LatchedPlus, 1)
               \/ ~isJALR /\ jumpToPCplusImm
                    /\ PCplusImmOf(Zero32, full_instr, isJAL, isAUIPC).lo % 4 # 0]_vars

\* C5 witness: a JALR to an odd target has executed; bit 0 was cleared and
\* bit 1 is set
C5_Witness ==
    /\ full_instr = JALR_x0_3_x0 /\ state = FETCH_INSTR /\ PC = Word(0, 2)

\* C6: while aluShamt != 0 the FSM is in WAIT_ALU_OR_MEM and no read strobe
\* is driven, and a clocked update in WAIT_ALU_OR_MEM with aluShamt != 0 or
\* a busy bus stays there.
C6_ShiftHoldsFsm ==
    /\ [](aluShamt # 0 => (state = WAIT_ALU_OR_MEM /\ ~mem_rstrb))
    /\ [][(ClockStep /\ state = WAIT_ALU_OR_MEM
             /\ (aluShamt # 0 \/ mem_rbusy \/ mem_wbusy))
            => state' = WAIT_ALU_OR_MEM]_vars

\* C6 witness: the shifter is busy and the bus is idle
C6_Witness ==
    /\ aluShamt # 0 /\ state = WAIT_ALU_OR_MEM /\ pending = {}
    /\ ~mem_rbusy /\ ~mem_wbusy /\ reset

\* C7 as stated: outside reset, cycles advances once per clock period: a
\* clocked update triggered by a clk event increments it on the rising edge
\* and leaves it alone on the falling edge.
C7_OncePerPeriod ==
    [][(ClockStep /\ edges > 0 /\ reset) =>
          cycles' = IF clk THEN Add32(cycles, One32) ELSE cycles]_vars

\* C8 as stated: an evaluation of combinational_process leaves PC, the
\* registers, state, cycles, aluReg, aluShamt and the latched instruction
\* unchanged.
C8_CombWritesNothing ==
    [][CombStep => UNCHANGED <<PC, registerFile, state, cycles, aluReg,
                               aluShamt, full_instr>>]_vars

\* the PC the latched instruction must leave, from the PC it was fetched at
ExpectedPC ==
    IF isJALR THEN Word(LatchedPlus.hi, LatchedPlus.lo - (LatchedPlus.lo % 2))
    ELSE IF isJAL THEN Add32(PC_at_fetch, JimmOf(full_instr))
    ELSE IF isBranch /\ predicateOf(funct3, rs1, LatchedIn2)
         THEN Add32(PC_at_fetch, BimmOf(full_instr))
    ELSE Add32(PC_at_fetch, Word(0, 4))

\* C9 as stated: the PC changes exactly once per executed instruction, to
\* the instruction's target, however the bus inputs change: at the clocked
\* update that leaves EXECUTE the PC is that target.
C9_PcOncePerInstruction ==
    [][(ClockStep /\ reset /\ state = EXECUTE /\ full_instr \in Program)
          => PC = ExpectedPC]_vars

\* the ten class codes of I[6:2]
ClassCodes == {0, 4, 5, 8, 12, 13, 24, 25, 27, 28}

\* C10 as stated: a word whose I[6:2] is no class code executes as a NOP: the
\* clocked update that leaves EXECUTE changes no register, no memory read or
\* write is requested, and PC is the fetch PC plus 4.
C10_IllegalIsNop ==
    [][(ClockStep /\ reset /\ state = EXECUTE
          /\ range(full_instr, 6, 2) \notin ClassCodes) =>
          /\ registerFile' = registerFile
          /\ ~mem_rstrb /\ mem_wmask = 0
          /\ state' = FETCH_INSTR
          /\ PC = Add32(PC_at_fetch, Word(0, 4))]_vars

\* the number of class flags that are true
TrueFlags ==
    B2N(isLoad) + B2N(isALUimm) + B2N(isAUIPC) + B2N(isStore) + B2N(isALUreg)
      + B2N(isLUI) + B2N(isBranch) + B2N(isJALR) + B2N(isJAL) + B2N(isSYSTEM)

\* C11 as stated: after a word is decoded each class flag is true exactly
\* when I[6:2] equals its code, so at most one of the ten flags is true, and
\* isALU = isALUimm \/ isALUreg.
C11_ClassFlags ==
    full_instr # Zero32 =>
        LET op == range(full_instr, 6, 2)
        IN  /\ isLoad = (op = 0)
            /\ isALUimm = (op = 4)
            /\ isAUIPC = (op = 5)
            /\ isStore = (op = 8)
            /\ isALUreg = (op = 12)
            /\ isLUI = (op = 13)
            /\ isBranch = (op = 24)
            /\ isJALR = (op = 25)
            /\ isJAL = (op = 27)
            /\ isSYSTEM = (op = 28)
            /\ TrueFlags <= 1
            /\ isALU = (isALUimm \/ isALUreg)

\* the n-bit value v (n <= 32) sign-extended to 32 bits
SignExtend(v, n) ==
    IF v < 2 ^ (n - 1) THEN Word(v \div Half, v % Half)
    ELSE IF n <= 16 THEN Word(Half - 1, Half - 2 ^ n + v)
    ELSE Word(Half - 2 ^ (n - 16) + v \div Half, v % Half)

\* the I-immediate of the latched word as the specification defines it
SpecIimm == SignExtend(range(full_instr, 31, 20), 12)

\* a word with bit 0 cleared
ClearBit0(w) == Word(w.hi, w.lo - (w.lo % 2))

\* C12, the immediate and its uses by the ALU and by JALR: the decoded
\* I-immediate is I[31:20] sign-extended; it is the second ALU operand of
\* every instruction that is not ALU-register or branch; a completed ADDI
\* leaves rs1 + Iimm in rd; a completed JALR leaves PC = (rs1 + Iimm) & ~1.
C12_IimmInAluAndJalr ==
    /\ IimmOf(full_instr) = SpecIimm
    /\ (full_instr # Zero32 /\ ~isALUreg /\ ~isBranch) => aluIn2 = SpecIimm
    /\ (isALUimm /\ funct3 = ALU_ADD_SUB /\ rdId = 4 /\ state = FETCH_INSTR)
          => registerFile[4] = Add32(registerFile[rs1Id], SpecIimm)
    /\ (isALUimm /\ funct3 = ALU_SLT /\ rdId = 4 /\ state = FETCH_INSTR)
          => registerFile[4] = Zero32
    /\ (full_instr # Zero32 /\ isJALR /\ state = FETCH_INSTR)
          => PC = ClearBit0(Add32(rs1, SpecIimm))

\* C12 as stated: the decoded I-immediate is I[31:20] sign-extended to 32
\* bits, so ADDI, SLTI and JALR use a negative offset when I[31] = 1, and so
\* does a load: the address it drives is rs1 + Iimm on ADDR_WIDTH bits.
C12_IimmSignExtended ==
    /\ C12_IimmInAluAndJalr
    /\ (full_instr # Zero32 /\ isLoad /\ state = EXECUTE /\ mem_rstrb)
          => mem_addr = LowBits(Add32(rs1, SpecIimm), ADDR_WIDTH)

\* the S-immediate of the latched word as the specification defines it
SpecSimm ==
    SignExtend(range(full_instr, 31, 25) * 32 + range(full_instr, 11, 7), 12)

\* C13 as stated: the decoded S-immediate is I[31:25] || I[11:7] sign-extended
\* to 32 bits, so the address a store drives is rs1 + Simm on ADDR_WIDTH
\* bits (rs1 minus a positive offset when I[31] = 1).
C13_SimmSignExtended ==
    (full_instr # Zero32 /\ isStore) =>
        /\ SimmOf(full_instr) = SpecSimm
        /\ (state = EXECUTE /\ mem_wmask # 0)
              => mem_addr = LowBits(Add32(rs1, SpecSimm), ADDR_WIDTH)

\* the B- and J-immediates of the latched word as the specification defines
\* them
SpecBimm ==
    SignExtend(B2N(bit(full_instr, 31)) * 4096 + B2N(bit(full_instr, 7)) * 2048
                 + range(full_instr, 30, 25) * 32 + range(full_instr, 11, 8) * 2,
               13)

SpecJimm ==
    SignExtend(B2N(bit(full_instr, 31)) * 1048576
                 + range(full_instr, 19, 12) * 4096
                 + B2N(bit(full_instr, 20)) * 2048
                 + range(full_instr, 30, 21) * 2,
               21)

\* unsigned a < b on 32-bit words
Below(a, b) == a.hi < b.hi \/ (a.hi = b.hi /\ a.lo < b.lo)

\* C14 as stated: Bimm and Jimm of the latched word are the sign-extended
\* B and J fields, and at the clocked update that leaves EXECUTE a taken
\* branch or a JAL whose word has I[31] = 1 has set PC below the
\* instruction's own PC.
C14_BackwardJumps ==
    [][(ClockStep /\ reset /\ state = EXECUTE) =>
          /\ range(full_instr, 6, 0) = 99 =>
                /\ BimmOf(full_instr) = SpecBimm
                /\ (bit(full_instr, 31) /\ predicateOf(funct3, rs1, rs2))
                      => Below(PC, PC_at_fetch)
          /\ range(full_instr, 6, 0) = 111 =>
                /\ JimmOf(full_instr) = SpecJimm
                /\ bit(full_instr, 31) => Below(PC, PC_at_fetch)]_vars

\* I[31:12] << 12 of the latched word
SpecUimm == Word(full_instr.hi, full_instr.lo - (full_instr.lo % 4096))

\* C15 as stated: an AUIPC with rd # 0 writes PC_at_fetch + (imm << 12)
\* modulo 2^32 to rd at the clocked update that leaves EXECUTE, and the PC
\* has advanced by 4; auipc x2, 2 fetched at 4 leaves x2 = 0x00002004.
C15_AuipcExact ==
    [][(ClockStep /\ reset /\ state = EXECUTE
          /\ range(full_instr, 6, 0) = 23 /\ rdIdOf(full_instr) # 0) =>
          /\ registerFile'[rdIdOf(full_instr)] = Add32(PC_at_fetch, SpecUimm)
          /\ PC = Add32(PC_at_fetch, Word(0, 4))]_vars

\* C16 as stated: a JAL or JALR with rd # 0 writes PC_at_fetch + 4 to rd at
\* the clocked update that leaves EXECUTE, whatever the target is and
\* however mem_rdata, mem_rbusy and mem_wbusy changed during EXECUTE.
C16_LinkIsFetchPlus4 ==
    [][(ClockStep /\ reset /\ state = EXECUTE
          /\ range(full_instr, 6, 0) \in {103, 111}
          /\ rdIdOf(full_instr) # 0) =>
          registerFile'[rdIdOf(full_instr)] = Add32(PC_at_fetch, Word(0, 4))]_vars

\* the effective address of the latched store, and the write mask the
\* specification's table gives for it
StoreEA == Add32(registerFile[rs1IdOf(full_instr)], SpecSimm)

SpecWmask ==
    CASE funct3 = 0 -> 2 ^ (StoreEA.lo % 4)
      [] funct3 = 1 -> IF (StoreEA.lo \div 2) % 2 = 0 THEN 3 ELSE 12
      [] OTHER      -> 15

\* C17 as stated: whenever combinational_process evaluates a store in
\* EXECUTE, the mem_wmask it drives is the table's mask for funct3 and
\* EA[1:0], for any base register: one-hot for SB, 0011 or 1100 for SH,
\* 1111 for an aligned SW.
C17_StoreMaskTable ==
    [][(CombStep /\ reset /\ state = EXECUTE
          /\ range(full_instr, 6, 0) = 35
          /\ (funct3 \in {0, 1} \/ (funct3 = 2 /\ StoreEA.lo % 4 = 0)))
          => mem_wmask' = SpecWmask]_vars

\* the effective address of the latched load, the memory word it returns,
\* and the value the specification loads from it
LoadEA == Add32(registerFile[rs1IdOf(full_instr)], SpecIimm)

LoadW == IF InMemory(LoadEA) THEN memory[word_addr(LoadEA)] ELSE Zero32

LoadHalf == IF (LoadEA.lo \div 2) % 2 = 0 THEN LoadW.lo ELSE LoadW.hi

SpecLoad ==
    CASE funct3 = 0 -> SignExtend(Lane(LoadW, LoadEA.lo % 4), 8)
      [] funct3 = 4 -> Word(0, Lane(LoadW, LoadEA.lo % 4))
      [] funct3 = 1 -> SignExtend(LoadHalf, 16)
      [] funct3 = 5 -> Word(0, LoadHalf)
      [] OTHER      -> LoadW

\* a load into a register other than x0 and its own base, with a
\* non-negative offset, has completed: the FSM is back in FETCH_INSTR
LoadDone ==
    /\ reset /\ state = FETCH_INSTR
    /\ range(full_instr, 6, 0) = 3 /\ funct3 \in {0, 1, 2, 4, 5}
    /\ ~bit(full_instr, 31)
    /\ rdIdOf(full_instr) \notin {0, rs1IdOf(full_instr)}

\* C18 as stated: once a load has completed, rd holds the slice of the
\* returned word W selected by funct3 and EA[1:0], for any base register:
\* the byte at lane EA[1:0] for LB (sign-extended) and LBU (zero-extended),
\* the halfword at EA[1] for LH and LHU, the whole word for LW.
C18_LoadSlices ==
    LoadDone => registerFile[rdIdOf(full_instr)] = SpecLoad

\* the program's first word, a store of width f3s, has been followed by the
\* load of funct3 f3l from the same address through the same base register,
\* and the load has completed
RoundTripDone(f3s, f3l) ==
    /\ reset /\ state = FETCH_INSTR /\ PC_at_fetch = Word(0, 4)
    /\ range(memory[0], 6, 0) = 35 /\ funct3Of(memory[0]) = f3s
    /\ full_instr = memory[1]
    /\ range(full_instr, 6, 0) = 3 /\ funct3 = f3l
    /\ rs1IdOf(full_instr) = rs1IdOf(memory[0])
    /\ range(full_instr, 31, 20)
          = range(memory[0], 31, 25) * 32 + range(memory[0], 11, 7)
    /\ rdIdOf(full_instr) \notin {0, rs1IdOf(full_instr), rs2IdOf(memory[0])}

\* the value of the register the program's first word stores
StoredRs2 == registerFile[rs2IdOf(memory[0])]

\* C19 as stated: against the masked-lane memory, SB of rs2 followed by LBU
\* from the same byte address leaves rd = rs2 & 0xFF, and followed by LB
\* leaves rd = the sign-extension of that byte, at every byte lane.
C19_ByteRoundTrip ==
    /\ RoundTripDone(0, 4)
          => registerFile[rdIdOf(full_instr)] = Word(0, StoredRs2.lo % 256)
    /\ RoundTripDone(0, 0)
          => registerFile[rdIdOf(full_instr)] = SignExtend(StoredRs2.lo % 256, 8)

\* C20 as stated: against the never-busy masked-lane memory, SW of rs2
\* followed by LW from the same word-aligned address leaves rd = rs2 and
\* the addressed memory word = rs2, for any base register.
C20_WordRoundTrip ==
    (RoundTripDone(2, 2) /\ LoadEA.lo % 4 = 0 /\ InMemory(LoadEA)) =>
        /\ registerFile[rdIdOf(full_instr)] = StoredRs2
        /\ memory[word_addr(LoadEA)] = StoredRs2

\* STORE_wmask of the latched instruction and operands
LatchedWmask ==
    STORE_wmaskOf(full_instr, loadstore_addrOf(rs1, SimmOf(full_instr)))

\* the strobes as functions of the FSM state and the latched class
StrobesFollowState ==
    /\ mem_rstrb = ((state = FETCH_INSTR) \/ (state = EXECUTE /\ isLoad))
    /\ mem_wmask = (IF state = EXECUTE /\ isStore THEN LatchedWmask ELSE 0)

\* C21 as stated: whenever no process is left to run, mem_rstrb is asserted
\* exactly when state = FETCH_INSTR or (state = EXECUTE and isLoad), and
\* mem_wmask is STORE_wmask when state = EXECUTE and isStore and 0000 in
\* every other state.
C21_StrobesFollowState ==
    pending = {} => StrobesFollowState

\* C22: a clocked update taken in FETCH_INSTR or WAIT_INSTR changes no
\* register, and a clocked update taken in EXECUTE or WAIT_ALU_OR_MEM while
\* the latched instruction is a branch or a store changes no register.
C22_WritebackGated ==
    [][ClockStep =>
          /\ state \in {FETCH_INSTR, WAIT_INSTR} => registerFile' = registerFile
          /\ (state \in {EXECUTE, WAIT_ALU_OR_MEM}
                /\ range(full_instr, 6, 0) \in {35, 99})
                => registerFile' = registerFile]_vars

\* a store whose I[11:7] field names x3 has gone through EXECUTE and
\* WAIT_ALU_OR_MEM and x3 still holds its value
C22_Witness ==
    /\ full_instr = EncS(3, 3, 1, 2) /\ state = FETCH_INSTR
    /\ lastClock = "run" /\ PC = Word(0, 4)
    /\ registerFile[3] = StoreValue

\* a, b as signed numbers: a < b, through the order-preserving map that
\* flips the sign bit
SignedBelow(a, b) ==
    Below(Word((a.hi + 32768) % Half, a.lo), Word((b.hi + 32768) % Half, b.lo))

\* the second operand of the latched comparison: rs2, or the sign-extended
\* I-immediate for SLTI and SLTIU
CompareOp2 == IF range(full_instr, 6, 0) = 19 THEN SpecIimm ELSE rs2

\* the branch predicate of the specification's table on the latched operands
SpecPredicate ==
    CASE funct3 = 0 -> rs1 = rs2
      [] funct3 = 1 -> rs1 # rs2
      [] funct3 = 4 -> SignedBelow(rs1, rs2)
      [] funct3 = 5 -> ~SignedBelow(rs1, rs2)
      [] funct3 = 6 -> Below(rs1, rs2)
      [] funct3 = 7 -> ~Below(rs1, rs2)
      [] OTHER      -> FALSE

\* C23: at the clocked update that leaves EXECUTE, the flags of the latched
\* operands are EQ = (a = b), LTU = (a < b unsigned), LT = (a < b signed);
\* a branch has set PC to its target exactly when the table's predicate for
\* its funct3 holds (never for 010 and 011); SLT, SLTU, SLTI and SLTIU write
\* 1 to rd exactly when the signed or unsigned comparison with rs2 or the
\* sign-extended immediate holds, hence 0 for equal operands.
C23_Comparisons ==
    [][(ClockStep /\ reset /\ state = EXECUTE /\ full_instr \in CompareProgram) =>
          /\ EQOf(rs1, rs2) = (rs1 = rs2)
          /\ LTUOf(rs1, rs2) = Below(rs1, rs2)
          /\ LTOf(rs1, rs2) = SignedBelow(rs1, rs2)
          /\ range(full_instr, 6, 0) = 99 =>
                /\ predicateOf(funct3, rs1, rs2) = SpecPredicate
                /\ PC = Add32(PC_at_fetch, IF SpecPredicate THEN Word(0, 8)
                                            ELSE Word(0, 4))
                /\ registerFile' = registerFile
          /\ (range(full_instr, 6, 0) \in {19, 51} /\ funct3 = ALU_SLT) =>
                registerFile'[4] = Word(0, B2N(SignedBelow(rs1, CompareOp2)))
          /\ (range(full_instr, 6, 0) \in {19, 51} /\ funct3 = ALU_SLTU) =>
                registerFile'[4] = Word(0, B2N(Below(rs1, CompareOp2)))]_vars

\* slt x4, x1, x2 with x1 = 0x80000000 and x2 = 1 has written 1 to x4
C23_Witness ==
    /\ full_instr = EncR(0, 2, 1, ALU_SLT, 4) /\ state = FETCH_INSTR
    /\ registerFile[1] = Word(32768, 0) /\ registerFile[2] = Word(0, 1)
    /\ registerFile[4] = Word(0, 1)

\* the 16-bit number whose bit i is f[lo + i]
RECURSIVE HalfOf(_, _, _)
HalfOf(f, lo, i) ==
    IF i = 16 THEN 0 ELSE B2N(f[lo + i]) * (2 ^ i) + HalfOf(f, lo, i + 1)

\* the word whose bit k is f[k]
FromBits(f) == Word(HalfOf(f, 16, 0), HalfOf(f, 0, 0))

\* v << n, and v >> n with `fill` in the vacated bits
SpecShl(v, n) == FromBits([k \in 0..31 |-> k >= n /\ bit(v, k - n)])
SpecShr(v, n, fill) ==
    FromBits([k \in 0..31 |-> IF k + n <= 31 THEN bit(v, k + n) ELSE fill])

\* the shift amount of the latched shift: the immediate, or rs2[4:0]
LatchedShamt ==
    IF range(full_instr, 6, 0) = 19 THEN range(full_instr, 24, 20)
    ELSE range(registerFile[2], 4, 0)

\* what the latched shift of v must leave in rd
SpecShift32(v) ==
    IF funct3 = ALU_SLL THEN SpecShl(v, LatchedShamt)
    ELSE SpecShr(v, LatchedShamt, bit(full_instr, 30) /\ bit(v, 31))

\* C24: once a shift of x1 into x4 has returned to FETCH_INSTR, x4 holds
\* x1 << n for SLL/SLLI, x1 >> n logical for SRL/SRLI and x1 >> n with
\* x1[31] replicated for SRA/SRAI, n being the immediate or rs2[4:0]; and
\* once slli x4, x1, n; srli x4, x4, n has completed, x4 holds x1 with its
\* top n bits cleared.
C24_Shifts ==
    /\ (reset /\ state = FETCH_INSTR
          /\ full_instr \in ShiftImmProgram \cup ShiftRegProgram)
          => registerFile[4] = SpecShift32(registerFile[1])
    /\ (reset /\ state = FETCH_INSTR /\ PC_at_fetch = Word(0, 4)
          /\ full_instr = memory[1]
          /\ \E n \in RoundTripShamt :
                /\ memory[0] = EncI(n, 1, ALU_SLL, 4, 19)
                /\ memory[1] = EncI(n, 4, ALU_SRL_SRA, 4, 19))
          => registerFile[4]
               = FromBits([k \in 0..31 |->
                             k < 32 - range(full_instr, 24, 20)
                               /\ bit(registerFile[1], k)])

\* srai x4, x1, 1 of 0x80000000 has completed and x4 = 0xC0000000
C24_Witness ==
    /\ full_instr = EncI(1025, 1, ALU_SRL_SRA, 4, 19) /\ state = FETCH_INSTR
    /\ registerFile[1] = Word(32768, 0) /\ registerFile[4] = Word(49152, 0)

\* C25: a non-reset clocked update taken with aluShamt # 0 while no new
\* shift is being latched decreases aluShamt by one and shifts aluReg by one
\* bit in the direction of the latched shift, whatever the FSM state and the
\* values of mem_rbusy and mem_wbusy.
C25_ShifterFreeRunning ==
    [][(ClockStep /\ reset /\ aluShamt # 0 /\ ~(aluWr /\ funct3IsShift)) =>
          /\ aluShamt' = aluShamt - 1
          /\ aluReg' = IF funct3 = ALU_SLL THEN SpecShl(aluReg, 1)
                        ELSE SpecShr(aluReg, 1, funct3 = ALU_SRL_SRA
                                                  /\ bit(full_instr, 30)
                                                  /\ bit(aluReg, 31))]_vars

\* srai x4, x1, 2 of 0x80000000 has made its first step while mem_rbusy and
\* mem_wbusy were high
C25_Witness ==
    /\ full_instr = EncI(1026, 1, ALU_SRL_SRA, 4, 19)
    /\ lastClock = "run" /\ mem_rbusy /\ mem_wbusy /\ pending = {}
    /\ aluShamt = 1 /\ aluReg = Word(49152, 0)

\* the latched instruction is a shift of x1 into x4 by 0
ShiftByZero ==
    full_instr \in ShiftImmProgram \cup ShiftRegProgram /\ LatchedShamt = 0

\* C26 as stated: a shift by 0 leaves rd = rs1 and, like ADD, goes from
\* EXECUTE straight to FETCH_INSTR without passing through WAIT_ALU_OR_MEM.
C26_ShiftByZeroNoStall ==
    [][(ClockStep /\ reset /\ state = EXECUTE
          /\ (ShiftByZero \/ full_instr \in AddProgram)) =>
          /\ state' = FETCH_INSTR
          /\ ShiftByZero => registerFile'[4] = registerFile[1]]_vars

\* C26, amended: ADD goes from EXECUTE straight to FETCH_INSTR; a shift by 0
\* goes from EXECUTE to WAIT_ALU_OR_MEM with aluShamt = 0, and the next
\* clocked update returns it to FETCH_INSTR with rd = rs1: one clocked
\* update more than ADD.
C26_ShiftByZeroOneWait ==
    [][(ClockStep /\ reset) =>
          /\ (state = EXECUTE /\ full_instr \in AddProgram)
                => state' = FETCH_INSTR
          /\ (state = EXECUTE /\ ShiftByZero)
                => (state' = WAIT_ALU_OR_MEM /\ aluShamt' = 0)
          /\ (state = WAIT_ALU_OR_MEM /\ ShiftByZero /\ lastClock = "run")
                => (state' = FETCH_INSTR /\ registerFile'[4] = registerFile[1])]_vars

\* srai x4, x1, 0 sits in WAIT_ALU_OR_MEM with nothing left to shift
C26_Witness ==
    /\ full_instr = EncI(1024, 1, ALU_SRL_SRA, 4, 19)
    /\ state = WAIT_ALU_OR_MEM /\ lastClock = "run" /\ pending = {}
    /\ aluShamt = 0 /\ aluReg = registerFile[1] /\ registerFile[1] = Word(32768, 0)

\* the latched instruction is a shift of x1 into x4
ShiftLatched == full_instr \in ShiftImmProgram \cup ShiftRegProgram

\* C27: with the bus idle, the clocked update that leaves EXECUTE latches
\* aluShamt = n; each later update taken with aluShamt # 0 decrements it by
\* one, and the update taken with aluShamt = 0 returns to FETCH_INSTR and
\* writes the final result to rd: FETCH_INSTR is reached 1 + n clocked
\* updates after the update that leaves EXECUTE.
C27_ShiftLatency ==
    [][(ClockStep /\ reset /\ ShiftLatched /\ ~mem_rbusy /\ ~mem_wbusy) =>
          /\ cycles' = Add32(cycles, One32)
          /\ state = EXECUTE
                => (state' = WAIT_ALU_OR_MEM /\ aluShamt' = LatchedShamt)
          /\ (state = WAIT_ALU_OR_MEM /\ aluShamt # 0)
                => (state' = WAIT_ALU_OR_MEM /\ aluShamt' = aluShamt - 1)
          /\ (state = WAIT_ALU_OR_MEM /\ aluShamt = 0)
                => /\ state' = FETCH_INSTR
                   /\ registerFile'[4] = SpecShift32(registerFile[1])]_vars

\* srli x4, x1, 31 of 0x80000000 is back in FETCH_INSTR with x4 = 1
C27_Witness ==
    /\ full_instr = EncI(31, 1, ALU_SRL_SRA, 4, 19) /\ state = FETCH_INSTR
    /\ aluShamt = 0 /\ registerFile[1] = Word(32768, 0)
    /\ registerFile[4] = Word(0, 1)

\* the FSM is waiting on a busy bus: mem_rbusy high in WAIT_INSTR, or
\* mem_rbusy or mem_wbusy high in WAIT_ALU_OR_MEM
StalledOnBus ==
    \/ (state = WAIT_INSTR /\ mem_rbusy)
    \/ (state = WAIT_ALU_OR_MEM /\ (mem_rbusy \/ mem_wbusy))

\* C28: while the FSM waits on a busy bus, a non-reset clocked update leaves
\* state and PC unchanged and increments cycles, and an evaluation of
\* combinational_process leaves state and PC unchanged; so a clocked update
\* leaves a wait state only with the bus not busy or through reset.
C28_StuckBusStalls ==
    [][/\ (ClockStep /\ reset /\ StalledOnBus) =>
             (state' = state /\ PC' = PC /\ cycles' = Add32(cycles, One32))
       /\ (CombStep /\ state \in {WAIT_INSTR, WAIT_ALU_OR_MEM}) =>
             (state' = state /\ PC' = PC)]_vars

\* the FSM has sat in WAIT_INSTR under mem_rbusy for two clocked updates
C28_Witness ==
    /\ state = WAIT_INSTR /\ mem_rbusy /\ reset /\ lastClock = "run"
    /\ pending = {} /\ cycles = Word(0, 4) /\ PC = RESET_ADDR

\* C29, the RDCYCLES part: at the clocked update that leaves EXECUTE, a
\* SYSTEM instruction whose CSR address is 0xC00 writes cycles to rd, and a
\* SYSTEM instruction changes no other register and requests no store.
C29_RdcyclesReadsCycles ==
    [][(ClockStep /\ reset /\ state = EXECUTE
          /\ range(full_instr, 6, 0) = 115 /\ rdIdOf(full_instr) # 0) =>
          /\ range(full_instr, 31, 20) = 3072
                => registerFile'[rdIdOf(full_instr)] = cycles
          /\ \A i \in 0..31 :
                i # rdIdOf(full_instr) => registerFile'[i] = registerFile[i]
          /\ mem_wmask = 0]_vars

\* C29 as stated: a SYSTEM instruction with rd # 0 writes cycles to rd when
\* I[31:20] = 0xC00 and 0 for every other CSR address, and changes no other
\* register.
C29_OnlyRdcyclesReadsCycles ==
    [][(ClockStep /\ reset /\ state = EXECUTE
          /\ range(full_instr, 6, 0) = 115 /\ rdIdOf(full_instr) # 0) =>
          /\ registerFile'[rdIdOf(full_instr)]
                = (IF range(full_instr, 31, 20) = 3072 THEN cycles ELSE Zero32)
          /\ \A i \in 0..31 :
                i # rdIdOf(full_instr) => registerFile'[i] = registerFile[i]
          /\ mem_wmask = 0]_vars

\* w is an RDCYCLES word (csrrs rd, cycle, x0 with rd # 0)
IsRdcycles(w) ==
    range(w, 6, 0) = 115 /\ range(w, 31, 20) = 3072 /\ rdIdOf(w) # 0

\* C30: with reset released throughout, once the first instruction after
\* reset, an RDCYCLES, has completed, its rd holds a value >= 1; and once a
\* second RDCYCLES into another register, executed right after it, has
\* completed, the second value is strictly greater than the first.
C30_CyclesIncrease ==
    /\ (reset /\ state = FETCH_INSTR /\ PC_at_fetch = Zero32
          /\ full_instr = memory[0] /\ IsRdcycles(full_instr))
          => Below(Zero32, registerFile[rdIdOf(full_instr)])
    /\ (reset /\ state = FETCH_INSTR /\ PC_at_fetch = Word(0, 4)
          /\ full_instr = memory[1] /\ IsRdcycles(memory[0])
          /\ IsRdcycles(memory[1]) /\ rdIdOf(memory[0]) # rdIdOf(memory[1]))
          => /\ Below(Zero32, registerFile[rdIdOf(memory[0])])
             /\ Below(registerFile[rdIdOf(memory[0])],
                       registerFile[rdIdOf(memory[1])])

\* two RDCYCLES in a row have completed, into x10 and then x11
C30_Witness ==
    /\ state = FETCH_INSTR /\ PC_at_fetch = Word(0, 4)
    /\ memory[0] = EncI(3072, 0, 2, 10, 115)
    /\ full_instr = EncI(3072, 0, 2, 11, 115)
    /\ registerFile[10] = Word(0, 3)
    /\ Below(registerFile[10], registerFile[11])

\* C31 as stated: a clocked update taken in reset leaves all 32 registers
\* zero, from any reachable state.
C31_ResetZeroesRegisters ==
    [][(ClockStep /\ ~reset) => \A i \in 0..31 : registerFile'[i] = Zero32]_vars

\* a - b modulo 2^32
Sub32(a, b) ==
    LET l == a.lo - b.lo
        h == a.hi - b.hi - (IF l < 0 THEN 1 ELSE 0)
    IN  Word((h + Half) % Half, (l + Half) % Half)

\* the RV32I result of the operation funct3 on a and b; alt is bit 30 of the
\* word where it selects SUB or an arithmetic right shift
RefAlu(f3, alt, a, b) ==
    CASE f3 = 0 -> IF alt THEN Sub32(a, b) ELSE Add32(a, b)
      [] f3 = 1 -> SpecShl(a, range(b, 4, 0))
      [] f3 = 2 -> Word(0, B2N(SignedBelow(a, b)))
      [] f3 = 3 -> Word(0, B2N(Below(a, b)))
      [] f3 = 4 -> Xor32(a, b)
      [] f3 = 5 -> SpecShr(a, range(b, 4, 0), alt /\ bit(a, 31))
      [] f3 = 6 -> Or32(a, b)
      [] OTHER  -> And32(a, b)

\* the value an RV32I ALU-immediate, ALU-register or LUI word w computes
\* from the registers R
RefValue(R, w) ==
    CASE range(w, 6, 0) = 55 -> Word(w.hi, w.lo - (w.lo % 4096))
      [] range(w, 6, 0) = 19 ->
            RefAlu(range(w, 14, 12), range(w, 14, 12) = 5 /\ bit(w, 30),
                   R[range(w, 19, 15)], SignExtend(range(w, 31, 20), 12))
      [] OTHER ->
            RefAlu(range(w, 14, 12), bit(w, 30),
                   R[range(w, 19, 15)], R[range(w, 24, 20)])

\* the registers after the reference interpreter has executed w
RefStep(R, w) ==
    IF range(w, 11, 7) = 0 THEN R
    ELSE [R EXCEPT ![range(w, 11, 7)] = RefValue(R, w)]

\* the registers after the reference interpreter has executed the first k
\* words of the program in memory, from all-zero registers
RECURSIVE RefRun(_)
RefRun(k) ==
    IF k = 0 THEN [i \in 0..31 |-> Zero32]
    ELSE RefStep(RefRun(k - 1), memory[k - 1])

\* a clocked update that completes an instruction: it returns the FSM from
\* EXECUTE or WAIT_ALU_OR_MEM to FETCH_INSTR with an instruction latched
Retires ==
    /\ ClockStep /\ reset /\ full_instr # Zero32
    /\ state \in {EXECUTE, WAIT_ALU_OR_MEM} /\ state' = FETCH_INSTR

\* C32: against the never-busy memory, the update that completes one of the
\* program's three instructions completes the word at the fetch address,
\* leaves PC = fetch address + 4 (so the k-th completion has PC = 4k) and
\* leaves the registers the reference interpreter has after PC / 4 words.
C32_ProgramOrder ==
    [][(Retires /\ PC_at_fetch.hi = 0 /\ PC_at_fetch.lo \div 4 < 3) =>
          /\ full_instr = memory[PC_at_fetch.lo \div 4]
          /\ PC = Add32(PC_at_fetch, Word(0, 4))
          /\ registerFile' = RefRun(PC.lo \div 4)]_vars

\* addi x1, x0, 5; addi x2, x0, 3; add x3, x1, x2 has completed
C32_Witness ==
    /\ state = FETCH_INSTR /\ full_instr = EncR(0, 2, 1, ALU_ADD_SUB, 3)
    /\ registerFile[1] = Word(0, 5) /\ registerFile[2] = Word(0, 3)
    /\ registerFile[3] = Word(0, 8) /\ PC = Word(0, 12)

\* C33: outside WAIT_INSTR no step changes the latched word (hence rd, the
\* rs1/rs2 indices, funct3 and the immediates, which are read from it), the
\* class flags or the latched operands rs1 and rs2: they are stable from the
\* update that enters EXECUTE until the FSM is in WAIT_INSTR again, whatever
\* mem_rdata does and whatever the instruction writes.
C33_LatchStable ==
    [][state # WAIT_INSTR =>
          UNCHANGED <<full_instr, rs1, rs2, isLoad, isALUimm, isStore, isALUreg,
                      isSYSTEM, isJAL, isJALR, isLUI, isAUIPC, isBranch, isALU>>]_vars

\* lw x1, 0(x1) has completed: mem_rdata and x1 hold the loaded word, the
\* latched rs1 is still the base address
C33_Witness ==
    /\ full_instr = EncI(0, 1, 2, 1, 3) /\ state = FETCH_INSTR /\ pending = {}
    /\ rs1 = Word(0, 8) /\ registerFile[1] = DataWord /\ mem_rdata # full_instr

\* C34: at the clocked update that leaves EXECUTE, an instruction with
\* funct3 = ADD_SUB writes rs1 - rs2 to rd when it is ALU-register with
\* I[30] = 1, rs1 + rs2 when it is ALU-register with I[30] = 0, and rs1 plus
\* the sign-extended immediate when it is ALU-immediate, whatever I[30] is.
C34_AddSub ==
    [][(ClockStep /\ reset /\ state = EXECUTE /\ full_instr \in AddSubProgram) =>
          registerFile'[4] =
              IF range(full_instr, 6, 0) = 51
              THEN IF bit(full_instr, 30)
                   THEN Sub32(registerFile[1], registerFile[2])
                   ELSE Add32(registerFile[1], registerFile[2])
              ELSE Add32(registerFile[1], SpecIimm)]_vars

\* addi x4, x1, 1024 (I[30] = 1) of 0xFFFFFFFF has left 0x000003FF in x4
C34_Witness ==
    /\ full_instr = EncI(1024, 1, ALU_ADD_SUB, 4, 19) /\ state = FETCH_INSTR
    /\ registerFile[1] = Word(65535, 65535) /\ registerFile[4] = Word(0, 1023)

\* C35 as stated: after a JALR, PC = (rs1 + Iimm) & ~1 in 32-bit wrap-around
\* arithmetic, for every rs1 and immediate: only bit 0 of the sum is cleared.
C35_JalrTarget32 ==
    [][(ClockStep /\ reset /\ state = EXECUTE /\ full_instr \in JalrProgram) =>
          PC = ClearBit0(Add32(registerFile[1], SpecIimm))]_vars

\* C36: at the clocked update that leaves EXECUTE, a LUI with rd # 0 writes
\* I[31:12] followed by twelve zero bits to rd, for words below 0x10000 as
\* for the others, and PC is the fetch address + 4.
C36_LuiExact ==
    [][(ClockStep /\ reset /\ state = EXECUTE
          /\ range(full_instr, 6, 0) = 55 /\ rdIdOf(full_instr) # 0) =>
          /\ registerFile'[rdIdOf(full_instr)] = SpecUimm
          /\ PC = Add32(PC_at_fetch, Word(0, 4))]_vars

\* lui x4, 15 (0x0000F237, below 0x10000) has left 0x0000F000 in x4
C36_Witness ==
    /\ full_instr = EncU(15, 4, 55) /\ full_instr.hi = 0 /\ state = FETCH_INSTR
    /\ registerFile[4] = Word(0, 61440) /\ PC = Word(0, 4)

\* the clk events within which the FSM must be back in FETCH_INSTR: the
\* wait for the word, EXECUTE, 31 shift steps and the update that sees
\* aluShamt = 0, prolonged by one clk event for each busy one
LiveBudget == 36 + MaxBusy

\* C37: with the clock running, reset released and the bus busy at MaxBusy
\* clk events at most, whenever the FSM is not in FETCH_INSTR it
\* reaches FETCH_INSTR again, and whenever aluShamt # 0 it reaches 0, for
\* every stream of shifts by 31, unaligned loads and stores and illegal
\* words (at every point of the run that leaves LiveBudget clk events);
\* aluShamt is at most 31 and every clocked update taken with aluShamt # 0
\* decreases it by one.
C37_NeverHangs ==
    /\ (state # FETCH_INSTR /\ edges <= MaxLiveEdges - LiveBudget)
          ~> (state = FETCH_INSTR)
    /\ (aluShamt # 0 /\ edges <= MaxLiveEdges - LiveBudget) ~> (aluShamt = 0)
    /\ [](aluShamt \in 0..31)
    /\ [][(ClockStep /\ aluShamt # 0) => aluShamt' = aluShamt - 1]_vars

\* srai x4, x0, 31 fetched at address 4 is back in FETCH_INSTR after the bus
\* was busy at MaxBusy clk events
C37_Witness ==
    /\ state = FETCH_INSTR /\ full_instr = EncI(1055, 0, ALU_SRL_SRA, 4, 19)
    /\ PC_at_fetch = Word(0, 4) /\ aluShamt = 0 /\ changes = MaxBusy
    /\ lastClock = "run" /\ pending = {}
\* C38 as stated: the first instruction of a program completes with the same
\* PC and the same registers in the build that runs clock_process first and in
\* the build that runs combinational_process first.
C38_OrderIndependent ==
    (firstRun # <<>> /\ Completed) => <<PC, registerFile>> = firstRun

\* C39 as stated: the first clocked update after reset is released, taken in
\* the post-reset WAIT_ALU_OR_MEM state, changes no register.
C39_ResetAborts ==
    [][(ClockStep /\ reset /\ lastClock = "reset") =>
          registerFile' = registerFile]_vars

\* C40 as stated: whenever no process is left to run, mem_rstrb and a
\* non-zero mem_wmask are not driven together, and mem_wmask is non-zero only
\* while the FSM is in EXECUTE with a store latched.
C40_NoReadWhileWrite ==
    pending = {} =>
        /\ ~(mem_rstrb /\ mem_wmask # 0)
        /\ (mem_wmask # 0 => (state = EXECUTE /\ isStore))

====
